---------------------------- MODULE Spec2Model ----------------------------
(***************************************************************************)
(* Model of the completion cache and the time-range productivity report   *)
(* of amazing_marvin_mcp/utils.py.                                         *)
(*                                                                         *)
(* A datetime is the number of minutes since 0001-01-01 00:00 of the       *)
(* proleptic Gregorian calendar (day ordinal * 1440 + minute of the day).  *)
(* A "%Y-%m-%d" date string is the tuple <<year, month, day>> of the       *)
(* numbers it spells; a string that does not spell a calendar date is a    *)
(* tuple that is not a valid date.                                         *)
(***************************************************************************)
EXTENDS Integers, Sequences, FiniteSets, TLC

VARIABLES
    clock,    \* datetime.now()
    cache,    \* DoneItemsCache._cache of the global _done_items_cache
    expiry,   \* DoneItemsCache._expiry
    ret,      \* what the last call did and returned
    hist,     \* observer: per date, the last successful upstream fetch of a
              \* date that was not today, while its 10 minutes last
    lastFailed, \* observer: the dates whose latest get, called on its own,
                \* raised
    th,       \* per thread, where it is in DoneItemsCache.get and its locals
    prev      \* observer: what the last two reports in a row did, where
              \* successive reports are compared

vars == <<clock, cache, expiry, ret, hist, lastFailed, th, prev>>

---------------------------------------------------------------------------
(* Program constants *)

CACHE_TTL_MINUTES == 10

CACHE_CLEANUP_HOURS == 1

MinutesPerHour == 60

MinutesPerDay == 1440

DefaultDays == 7

TopProjects == 5

---------------------------------------------------------------------------
(* Bounds of the model *)

\* the runs end when the clock has advanced this many minutes
MaxElapsed == 100

\* largest `days` argument tried
MaxDays == 3

\* the runs of reports end when the clock has advanced this many minutes
MaxReportElapsed == 10

\* minutes the clock can run while threads call get
MaxThreadElapsed == 80

\* the most tasks in one batch
MaxTasks == 3

\* the most project keys in a by_project that is ranked on its own
MaxProjects == 6

\* the most completed items a project has in it
MaxCount == 3

---------------------------------------------------------------------------
(* datetime: the calendar arithmetic behind strptime / strftime / timedelta *)

DaysInMonth == <<31, 28, 31, 30, 31, 30, 31, 31, 30, 31, 30, 31>>

DaysBeforeMonth == <<0, 31, 59, 90, 120, 151, 181, 212, 243, 273, 304, 334>>

IsLeap(y) == (y % 4 = 0) /\ ((y % 100 # 0) \/ (y % 400 = 0))

DaysBeforeYear(y) ==
    LET y1 == y - 1
    IN  y1 * 365 + (y1 \div 4) - (y1 \div 100) + (y1 \div 400)

MonthLength(y, m) == IF m = 2 /\ IsLeap(y) THEN 29 ELSE DaysInMonth[m]

\* a date string strptime(.., "%Y-%m-%d") accepts
ValidDate(s) ==
    /\ s[1] >= 1
    /\ s[2] \in 1..12
    /\ s[3] >= 1
    /\ s[3] <= MonthLength(s[1], s[2])

Ymd2Ord(s) ==
    DaysBeforeYear(s[1]) + DaysBeforeMonth[s[2]]
        + (IF s[2] > 2 /\ IsLeap(s[1]) THEN 1 ELSE 0) + s[3]

Ord2Ymd(ord) ==
    LET n0   == ord - 1
        n400 == n0 \div 146097
        r400 == n0 % 146097
        n100 == r400 \div 36524
        r100 == r400 % 36524
        n4   == r100 \div 1461
        r4   == r100 % 1461
        n1   == r4 \div 365
        n    == r4 % 365
        year == n400 * 400 + 1 + n100 * 100 + n4 * 4 + n1
        leap == (n1 = 3) /\ ((n4 # 24) \/ (n100 = 3))
        m0   == (n + 50) \div 32
        p0   == DaysBeforeMonth[m0] + (IF m0 > 2 /\ leap THEN 1 ELSE 0)
        month == IF p0 > n THEN m0 - 1 ELSE m0
        prec  == IF p0 > n
                 THEN p0 - (DaysInMonth[m0 - 1]
                            + (IF m0 - 1 = 2 /\ leap THEN 1 ELSE 0))
                 ELSE p0
    IN  IF n1 = 4 \/ n100 = 4
        THEN <<year - 1, 12, 31>>
        ELSE <<year, month, n - prec + 1>>

\* datetime.strptime(s, "%Y-%m-%d"): midnight of the date (s is valid)
Strptime(s) == Ymd2Ord(s) * MinutesPerDay

\* dt.strftime("%Y-%m-%d"): the time of day is dropped
Strftime(dt) == Ord2Ymd(dt \div MinutesPerDay)

WeekdayNames ==
    <<"Monday", "Tuesday", "Wednesday", "Thursday", "Friday", "Saturday",
      "Sunday">>

\* dt.strftime("%A")
Weekday(dt) == WeekdayNames[(((dt \div MinutesPerDay) + 6) % 7) + 1]

TimedeltaDays(n) == n * MinutesPerDay

TimedeltaMinutes(n) == n

TimedeltaHours(n) == n * MinutesPerHour

---------------------------------------------------------------------------
(* The world the runs start in: 2024-02-28 23:45, so that midnight, the    *)
(* 29th of February and the turn of the month are within reach.            *)

Day0 == <<2024, 2, 28>>

StartClock == Strptime(Day0) + 23 * MinutesPerHour + 45

\* what the upstream completed-items endpoint can answer
Item1 == [kind |-> "dict", id |-> 1, parentId |-> "p1"]

Item2 == [kind |-> "dict", id |-> 2, parentId |-> "p2"]

Item3 == [kind |-> "dict", id |-> 3]

ItemLists == {<<>>, <<Item1>>, <<Item2, Item3>>}

Failure == [ok |-> FALSE]

Success(items) == [ok |-> TRUE, items |-> items]

\* the outcomes of one api_client.get_done_items(date=..) call
Outcomes == {Failure} \cup {Success(l) : l \in ItemLists}

---------------------------------------------------------------------------
(* Python dict as a function whose domain is the key set *)

EmptyDict == [k \in {} |-> 0]

\* a variant that keeps the value of a key that is there: dict.setdefault
DictSetDefault(d, k, v) ==
    [x \in (DOMAIN d) \cup {k} |-> IF x \in DOMAIN d THEN d[x] ELSE v]

DictSet(d, k, v) == [x \in (DOMAIN d) \cup {k} |-> IF x = k THEN v ELSE d[x]]

DictPop(d, k) == [x \in (DOMAIN d) \ {k} |-> d[x]]

DictPopAll(d, ks) == [x \in (DOMAIN d) \ ks |-> d[x]]

RECURSIVE SumOver(_, _)
SumOver(f, S) ==
    IF S = {} THEN 0
    ELSE LET x == CHOOSE y \in S : TRUE
         IN  f[x] + SumOver(f, S \ {x})

---------------------------------------------------------------------------
(* DoneItemsCache *)

\* a variant taking today from a clock that is an hour ahead
IsTodayOtherZone(date, current_time) ==
    date = Strftime(current_time + TimedeltaHours(1))

\* line 32: date == today
IsToday(date, current_time) == date = Strftime(current_time)

\* a variant with the expiry comparison the wrong way round
IsCachedAndValidInverted(c, e, date, current_time) ==
    /\ date \in DOMAIN c
    /\ date \in DOMAIN e
    /\ current_time > e[date]

IsCachedAndValid(c, e, date, current_time) ==
    /\ date \in DOMAIN c
    /\ date \in DOMAIN e
    /\ current_time < e[date]

\* a variant whose threshold is a day instead of an hour back
ExpiredDatesDayThreshold(e, current_time) ==
    LET cleanup_threshold == current_time - TimedeltaDays(CACHE_CLEANUP_HOURS)
    IN  {d \in DOMAIN e : e[d] < cleanup_threshold}

\* the dates _cleanup_expired_entries collects
ExpiredDates(e, current_time) ==
    LET cleanup_threshold == current_time - TimedeltaHours(CACHE_CLEANUP_HOURS)
    IN  {d \in DOMAIN e : e[d] < cleanup_threshold}

\* a variant that pops the expired dates from the items and leaves their
\* expiry
PopExpiredItemsOnly(c, e, expired_dates) ==
    [cache |-> DictPopAll(c, expired_dates), expiry |-> e]

\* lines 70-72: both maps lose the expired dates
PopExpired(c, e, expired_dates) ==
    [cache  |-> DictPopAll(c, expired_dates),
     expiry |-> DictPopAll(e, expired_dates)]

\* a variant that removes every entry, the fresh ones too
CleanupAllEntries(c, e, current_time) ==
    [cache  |-> DictPopAll(c, DOMAIN e),
     expiry |-> DictPopAll(e, DOMAIN e),
     cleaned |-> DOMAIN e]

CleanupExpiredEntries(c, e, current_time) ==
    LET expired_dates == ExpiredDates(e, current_time)
    IN  [cache  |-> PopExpired(c, e, expired_dates).cache,
         expiry |-> PopExpired(c, e, expired_dates).expiry,
         cleaned |-> expired_dates]

\* a variant that drops the date's old entry before the exception leaves
FetchRaisedEvicts(c, e, date) ==
    [cache |-> DictPop(c, date), expiry |-> DictPop(e, date), raised |-> TRUE,
     items |-> <<>>, fetches |-> 1, cleaned |-> {}]

\* api_client.get_done_items raised inside get: the exception leaves get
\* at once
FetchRaised(c, e, date) ==
    [cache |-> c, expiry |-> e, raised |-> TRUE, items |-> <<>>,
     fetches |-> 1, cleaned |-> {}]

\* a variant whose entries live for the cleanup threshold, an hour
StoreAndCleanupHourTTL(c, e, date, current_time, items) ==
    LET c1 == DictSet(c, date, items)
        e1 == DictSet(e, date,
                      current_time + TimedeltaHours(CACHE_CLEANUP_HOURS))
        cl == CleanupExpiredEntries(c1, e1, current_time)
    IN  [cache |-> cl.cache, expiry |-> cl.expiry, raised |-> FALSE,
         items |-> items, fetches |-> 1, cleaned |-> cl.cleaned]

\* lines 45-51: store, clean up, return
StoreAndCleanup(c, e, date, current_time, items) ==
    LET c1 == DictSet(c, date, items)
        e1 == DictSet(e, date,
                      current_time + TimedeltaMinutes(CACHE_TTL_MINUTES))
        cl == CleanupExpiredEntries(c1, e1, current_time)
    IN  [cache |-> cl.cache, expiry |-> cl.expiry, raised |-> FALSE,
         items |-> items, fetches |-> 1, cleaned |-> cl.cleaned]

\* a variant that serves today from an entry when there is one
FetchLiveOrCached(c, e, date, outcome) ==
    IF date \in DOMAIN c
    THEN [cache |-> c, expiry |-> e, raised |-> FALSE,
          items |-> c[date], fetches |-> 0, cleaned |-> {}]
    ELSE IF outcome.ok
    THEN [cache |-> c, expiry |-> e, raised |-> FALSE,
          items |-> outcome.items, fetches |-> 1, cleaned |-> {}]
    ELSE FetchRaised(c, e, date)

\* lines 32-34: today is fetched from the upstream and nothing is stored
FetchLive(c, e, date, outcome) ==
    IF outcome.ok
    THEN [cache |-> c, expiry |-> e, raised |-> FALSE,
          items |-> outcome.items, fetches |-> 1, cleaned |-> {}]
    ELSE FetchRaised(c, e, date)

\* a variant of the hit that runs the cleanup before it returns
ServeFromCacheAndCleanup(c, e, date, current_time) ==
    LET cl == CleanupExpiredEntries(c, e, current_time)
    IN  [cache |-> cl.cache, expiry |-> cl.expiry, raised |-> FALSE,
         items |-> c[date], fetches |-> 0, cleaned |-> cl.cleaned]

\* lines 37-39: the hit returns self._cache[date] and writes nothing
ServeFromCache(c, e, date, current_time) ==
    [cache |-> c, expiry |-> e, raised |-> FALSE,
     items |-> c[date], fetches |-> 0, cleaned |-> {}]

\* a variant that remembers a failed fetch: it stores an empty result for
\* the date, and raises
CacheGetRemembersFailure(c, e, date, current_time, outcome) ==
    IF IsToday(date, current_time)
    THEN FetchLive(c, e, date, outcome)
    ELSE IF IsCachedAndValid(c, e, date, current_time)
    THEN ServeFromCache(c, e, date, current_time)
    ELSE IF outcome.ok
    THEN StoreAndCleanup(c, e, date, current_time, outcome.items)
    ELSE FetchRaised(DictSet(c, date, <<>>),
                     DictSet(e, date, current_time
                                 + TimedeltaMinutes(CACHE_TTL_MINUTES)),
                     date)

\* DoneItemsCache.get(date, api_client) called when datetime.now() is
\* current_time; `outcome` is what api_client.get_done_items answers if it
\* is called.  The result carries the new maps, whether the call raised,
\* the returned items, the number of upstream calls made and the dates the
\* cleanup removed.
CacheGet(c, e, date, current_time, outcome) ==
    IF IsToday(date, current_time)
    THEN FetchLive(c, e, date, outcome)
    ELSE IF IsCachedAndValid(c, e, date, current_time)
    THEN ServeFromCache(c, e, date, current_time)
    ELSE IF outcome.ok
    THEN StoreAndCleanup(c, e, date, current_time, outcome.items)
    ELSE FetchRaised(c, e, date)

\* a variant taking the number of entries for the number of items
CacheStatsLenOfDict(c) ==
    [cached_dates |-> Cardinality(DOMAIN c),
     total_cached_items |-> Cardinality(DOMAIN c)]

CacheStats(c) ==
    [cached_dates |-> Cardinality(DOMAIN c),
     total_cached_items |-> SumOver([d \in DOMAIN c |-> Len(c[d])], DOMAIN c)]

---------------------------------------------------------------------------
(* _generate_date_range *)

\* Optional[int] and Optional[str]: None is the empty tuple, an int n is
\* <<n>>, a date string is its <<year, month, day>>
None == <<>>

Truthy(s) == Len(s) > 0

\* a variant of the walk that stops one day early
RECURSIVE WalkDatesExclusive(_, _)
WalkDatesExclusive(current, end) ==
    IF current < end
    THEN <<Strftime(current)>> \o WalkDatesExclusive(current + TimedeltaDays(1), end)
    ELSE <<>>

\* lines 318-322: while current <= end: append, current += one day
RECURSIVE WalkDates(_, _)
WalkDates(current, end) ==
    IF current <= end
    THEN <<Strftime(current)>> \o WalkDates(current + TimedeltaDays(1), end)
    ELSE <<>>

\* a variant of the loop counting from 1
DaysBackFromOne(today, days) ==
    [i \in 1..(IF days > 0 THEN days ELSE 0) |->
        Strftime(today - TimedeltaDays(i))]

\* lines 328-331: for i in range(days): today - i days
DaysBack(today, days) ==
    [i \in 1..(IF days > 0 THEN days ELSE 0) |->
        Strftime(today - TimedeltaDays(i - 1))]

\* a variant where a missing end_date makes the range end at its start
GenerateDateRangeEndAtStart(days, start_date, end_date, now) ==
    IF Truthy(start_date)
    THEN IF ~ValidDate(start_date) \/ (Truthy(end_date) /\ ~ValidDate(end_date))
         THEN [raised |-> TRUE]
         ELSE [raised |-> FALSE,
               date_list |-> WalkDates(Strptime(start_date),
                                IF Truthy(end_date) THEN Strptime(end_date)
                                ELSE Strptime(start_date)),
               start |-> Strptime(start_date),
               end |-> IF Truthy(end_date) THEN Strptime(end_date)
                       ELSE Strptime(start_date)]
    ELSE [raised |-> FALSE,
          date_list |-> DaysBack(now, IF days = None THEN DefaultDays
                                      ELSE days[1]),
          start |-> now - TimedeltaDays((IF days = None THEN DefaultDays
                                         ELSE days[1]) - 1),
          end |-> now]

\* _generate_date_range(days, start_date, end_date) when datetime.now() is
\* now; strptime raises ValueError on a string that is no date
GenerateDateRange(days, start_date, end_date, now) ==
    IF Truthy(start_date)
    THEN IF ~ValidDate(start_date) \/ (Truthy(end_date) /\ ~ValidDate(end_date))
         THEN [raised |-> TRUE]
         ELSE LET start == Strptime(start_date)
                  end   == IF Truthy(end_date) THEN Strptime(end_date) ELSE now
              IN  [raised |-> FALSE, date_list |-> WalkDates(start, end),
                   start |-> start, end |-> end]
    ELSE LET n     == IF days = None THEN DefaultDays ELSE days[1]
             today == now
         IN  [raised |-> FALSE, date_list |-> DaysBack(today, n),
              start |-> today - TimedeltaDays(n - 1), end |-> today]

---------------------------------------------------------------------------
(* Python dict that is iterated: the sequence of its [k, v] pairs in       *)
(* insertion order                                                         *)

ODKeys(d) == [i \in 1..Len(d) |-> d[i].k]

ODHas(d, k) == \E i \in 1..Len(d) : d[i].k = k

ODGet(d, k) == d[CHOOSE i \in 1..Len(d) : d[i].k = k].v

\* d[k] = v: an existing key keeps its place
ODSet(d, k, v) ==
    IF ODHas(d, k)
    THEN [i \in 1..Len(d) |-> IF d[i].k = k THEN [k |-> k, v |-> v] ELSE d[i]]
    ELSE Append(d, [k |-> k, v |-> v])

---------------------------------------------------------------------------
(* _process_date_data *)

\* an item of the upstream answer that is no JSON object
BadItem == [kind |-> "str"]

\* item.get("parentId", "unassigned")
ProjectKey(item) ==
    IF "parentId" \in DOMAIN item THEN item.parentId ELSE "unassigned"

\* lines 372-385: the loop over the items; item.get raises on an item that
\* is no dict and leaves what the loop has done so far
RECURSIVE TrackByProject(_, _, _, _, _)
TrackByProject(items, i, date_str, weekday, rs) ==
    IF i > Len(items) THEN [raised |-> FALSE, rs |-> rs]
    ELSE IF items[i].kind # "dict" THEN [raised |-> TRUE, rs |-> rs]
    ELSE LET project_id == ProjectKey(items[i])
             bp0 == IF ODHas(rs.by_project, project_id)
                    THEN rs.by_project
                    ELSE ODSet(rs.by_project, project_id, 0)
             bp1 == ODSet(bp0, project_id, ODGet(bp0, project_id) + 1)
             tp0 == IF ODHas(rs.tasks_by_project, project_id)
                    THEN rs.tasks_by_project
                    ELSE ODSet(rs.tasks_by_project, project_id, <<>>)
             tp1 == ODSet(tp0, project_id,
                          Append(ODGet(tp0, project_id),
                                 [task |-> items[i], completed_date |-> date_str,
                                  weekday |-> weekday]))
         IN  TrackByProject(items, i + 1, date_str, weekday,
                            [rs EXCEPT !.by_project = bp1,
                                       !.tasks_by_project = tp1])

\* a variant of the except branch that only logs
ExceptBranchLogOnly(rs, date_str, weekday, is_today) == rs

\* lines 386-394: the except branch
ExceptBranch(rs, date_str, weekday, is_today) ==
    [rs EXCEPT
        !.daily_breakdown =
            ODSet(@, date_str, [count |-> 0, weekday |-> weekday,
                                is_today |-> is_today, tasks |-> <<>>]),
        !.tasks_by_date = ODSet(@, date_str, <<>>)]

\* a variant of the try branch that does not index the items by date
RecordItemsNoDateIndex(rs, date_str, weekday, is_today, items) ==
    LET count == Len(items)
    IN  [rs EXCEPT
            !.api_calls = @ + 1,
            !.daily_breakdown =
                ODSet(@, date_str, [count |-> count, weekday |-> weekday,
                                    is_today |-> is_today, tasks |-> items]),
            !.total_completed = @ + count,
            !.all_completed_tasks = @ \o items]

\* lines 352-369: the try branch up to the loop over the items
RecordItems(rs, date_str, weekday, is_today, items) ==
    LET count == Len(items)
    IN  [rs EXCEPT
            !.api_calls = @ + 1,
            !.daily_breakdown =
                ODSet(@, date_str, [count |-> count, weekday |-> weekday,
                                    is_today |-> is_today, tasks |-> items]),
            !.total_completed = @ + count,
            !.tasks_by_date = ODSet(@, date_str, items),
            !.all_completed_tasks = @ \o items]

\* lines 349-394: the try statement, t being what the try branch did
TryExcept(t, date_str, weekday, is_today) ==
    IF t.raised
    THEN ExceptBranch(t.rs, date_str, weekday, is_today)
    ELSE t.rs

\* _process_date_data(date_str, api_client, range_summary) when
\* datetime.now() is now; got is what _done_items_cache.get did
ProcessDateData(date_str, now, got, rs) ==
    LET date_obj == Strptime(date_str)
        weekday  == Weekday(date_obj)
        is_today == date_str = Strftime(now)
    IN  TryExcept(IF got.raised
                  THEN [raised |-> TRUE, rs |-> rs]
                  ELSE TrackByProject(got.items, 1, date_str, weekday,
                          RecordItems(rs, date_str, weekday, is_today,
                                      got.items)),
                  date_str, weekday, is_today)

\* the observer forgets a fetch once its 10 minutes are over
Prune(h, now) ==
    LET keep == {d \in DOMAIN h :
                    now < h[d].at + TimedeltaMinutes(CACHE_TTL_MINUTES)}
    IN  [d \in keep |-> h[d]]

\* what the observer notes of one get
Observe(h, date, now, called, outcome, after) ==
    Prune(IF called /\ outcome.ok /\ date # Strftime(now)
          THEN DictSet(h, date, [at |-> now, items |-> outcome.items])
          ELSE h, after)

\* one turn of the loop: date d, got being what the cache's get did
ProcessDate(d, outcome, dur, st, got) ==
    LET called == got.fetches > 0
        after  == st.now + (IF called THEN dur ELSE 0)
    IN  [cache  |-> got.cache,
         expiry |-> got.expiry,
         now    |-> after,
         hist   |-> Observe(st.hist, d, st.now, called, outcome, after),
         rs     |-> ProcessDateData(d, st.now, got, st.rs),
         calls  |-> st.calls + got.fetches,
         failed |-> IF got.raised THEN st.failed \cup {d} ELSE st.failed,
         fetched |-> IF called THEN st.fetched \cup {d} ELSE st.fetched,
         live   |-> IF IsToday(d, st.now) THEN st.live \cup {d} ELSE st.live,
         got    |-> IF got.raised THEN st.got
                    ELSE DictSet(st.got, d, got.items)]

\* lines 466-467: the loop over date_list from its i-th date on.  st holds
\* the cache, the clock and the summary; up is what the upstream answers
\* for each date and dur the time each of its calls takes.  st.calls,
\* st.failed and st.got note the upstream calls made, the dates whose get
\* raised and the items the other gets returned.
RECURSIVE ProcessDates(_, _, _, _, _)
ProcessDates(date_list, i, up, dur, st) ==
    IF i > Len(date_list) THEN st
    ELSE ProcessDates(date_list, i + 1, up, dur,
             ProcessDate(date_list[i], up[date_list[i]], dur, st,
                 CacheGet(st.cache, st.expiry, date_list[i], st.now,
                          up[date_list[i]])))

---------------------------------------------------------------------------
(* _calculate_statistics and get_productivity_summary_for_time_range_util *)

\* a sort that is not stable: equal counts change places
InOrderStrict(a, b, reverse) ==
    IF reverse THEN a.count > b.count ELSE a.count < b.count

\* the order sorted() puts a before b in, or leaves them in
InOrder(a, b, reverse) ==
    IF reverse THEN a.count >= b.count ELSE a.count <= b.count

\* sorted() is stable: x goes behind everything that does not sort after it
RECURSIVE InsertStable(_, _, _)
InsertStable(sorted, x, reverse) ==
    IF sorted = <<>> THEN <<x>>
    ELSE IF InOrder(sorted[Len(sorted)], x, reverse) THEN Append(sorted, x)
    ELSE Append(InsertStable(SubSeq(sorted, 1, Len(sorted) - 1), x, reverse),
                sorted[Len(sorted)])

\* sorted(seq, key=lambda x: x[1], reverse=reverse)
RECURSIVE SortedByCount(_, _)
SortedByCount(seq, reverse) ==
    IF seq = <<>> THEN <<>>
    ELSE InsertStable(SortedByCount(SubSeq(seq, 1, Len(seq) - 1), reverse),
                      seq[Len(seq)], reverse)

\* a float that is the quotient of two ints
Quotient(num, den) == [num |-> num, den |-> den]

\* lines 409-418: the day at the head or at the tail of sorted_days
ProductiveDay(rs, day) ==
    <<[date |-> day.date, count |-> day.count,
       weekday |-> ODGet(rs.daily_breakdown, day.date).weekday]>>

\* the number of days on which something was completed
CompletedDays(sorted_days) ==
    Cardinality({i \in 1..Len(sorted_days) : sorted_days[i].count > 0})

\* a variant that averages over the days with completed items only
StatisticsFromCompletedDays(rs, sorted_days) ==
    [rs EXCEPT
        !.least_productive_day = ProductiveDay(rs, sorted_days[1]),
        !.most_productive_day = ProductiveDay(rs, sorted_days[Len(sorted_days)]),
        !.average_per_day = Quotient(rs.total_completed,
                                     CompletedDays(sorted_days))]

\* lines 409-422
StatisticsFrom(rs, sorted_days) ==
    [rs EXCEPT
        !.least_productive_day = ProductiveDay(rs, sorted_days[1]),
        !.most_productive_day = ProductiveDay(rs, sorted_days[Len(sorted_days)]),
        !.average_per_day = Quotient(rs.total_completed, Len(sorted_days))]

\* lines 403-406
DailyCounts(daily_breakdown) ==
    [i \in 1..Len(daily_breakdown) |->
        [date |-> daily_breakdown[i].k, count |-> daily_breakdown[i].v.count]]

CalculateStatistics(rs) ==
    IF Len(rs.daily_breakdown) > 0
    THEN StatisticsFrom(rs, SortedByCount(DailyCounts(rs.daily_breakdown),
                                          FALSE))
    ELSE rs

\* lines 449-463
NewRangeSummary(date_list, start, end) ==
    [period_start |-> Strftime(start),
     period_end |-> Strftime(end),
     total_days |-> Len(date_list),
     total_completed |-> 0,
     daily_breakdown |-> <<>>,
     by_project |-> <<>>,
     all_completed_tasks |-> <<>>,
     tasks_by_date |-> <<>>,
     tasks_by_project |-> <<>>,
     most_productive_day |-> None,
     least_productive_day |-> None,
     average_per_day |-> Quotient(0, 1),
     api_calls |-> 0]

\* lines 473-475: sorted(by_project.items(), ..., reverse=True)[:5]
FirstFew(ranked) ==
    SubSeq(ranked, 1,
           IF Len(ranked) < TopProjects THEN Len(ranked) ELSE TopProjects)

\* a variant that forgets reverse=True
TopProjectsOfAscending(by_project) ==
    FirstFew(SortedByCount([i \in 1..Len(by_project) |->
                               [id |-> by_project[i].k,
                                count |-> by_project[i].v]], FALSE))

TopProjectsOf(by_project) ==
    FirstFew(SortedByCount([i \in 1..Len(by_project) |->
                               [id |-> by_project[i].k,
                                count |-> by_project[i].v]], TRUE))

\* lines 480-483: {proj.get("_id"): proj.get("title", "Unnamed Project")}
RECURSIVE ProjectNames(_)
ProjectNames(projects) ==
    IF projects = <<>> THEN EmptyDict
    ELSE DictSet(ProjectNames(SubSeq(projects, 1, Len(projects) - 1)),
                 projects[Len(projects)]._id,
                 IF "title" \in DOMAIN projects[Len(projects)]
                 THEN projects[Len(projects)].title
                 ELSE "Unnamed Project")

\* lines 486-496
WithNames(top_projects, project_names) ==
    [i \in 1..Len(top_projects) |->
        [project_id |-> top_projects[i].id,
         project_name |->
            IF top_projects[i].id \in DOMAIN project_names
            THEN project_names[top_projects[i].id]
            ELSE IF top_projects[i].id # "unassigned"
                 THEN "Unknown Project" ELSE "Unassigned",
         completed_count |-> top_projects[i].count]]

\* lines 485-496, the names being known
NamesResolved(top_projects, project_names) ==
    [project_names |-> project_names,
     top_projects_with_names |-> WithNames(top_projects, project_names)]

\* lines 477-500: the names of the top projects, or nothing when
\* api_client.get_projects() raises
ResolveNames(top_projects, projects) ==
    IF projects.ok
    THEN NamesResolved(top_projects, ProjectNames(projects.items))
    ELSE [project_names |-> EmptyDict, top_projects_with_names |-> <<>>]

\* lines 509-516: what the outer except returns
ErrorReport(e) ==
    [kind |-> "error", error |-> e, total_completed |-> 0,
     daily_breakdown |-> <<>>, by_project |-> <<>>]

\* line 518: the summary that is returned
FullReport(rs, top, names, cache_stats) ==
        [kind |-> "full",
         period_start |-> rs.period_start,
         period_end |-> rs.period_end,
         total_days |-> rs.total_days,
         total_completed |-> rs.total_completed,
         daily_breakdown |-> rs.daily_breakdown,
         by_project |-> rs.by_project,
         all_completed_tasks |-> rs.all_completed_tasks,
         tasks_by_date |-> rs.tasks_by_date,
         tasks_by_project |-> rs.tasks_by_project,
         most_productive_day |-> rs.most_productive_day,
         least_productive_day |-> rs.least_productive_day,
         average_per_day |-> rs.average_per_day,
         api_calls |-> rs.api_calls,
         top_projects |-> top,
         project_names |-> names.project_names,
         top_projects_with_names |-> names.top_projects_with_names,
         efficiency_metrics |->
             [cached_dates |-> cache_stats.cached_dates,
              total_cached_items |-> cache_stats.total_cached_items,
              total_api_calls |-> rs.api_calls]]

\* a variant without the try of lines 478-500: a failure of get_projects
\* reaches the except clause of line 509
EnrichNoInnerTry(rs, top, projects, c) ==
    IF projects.ok
    THEN FullReport(rs, top, ResolveNames(top, projects), CacheStats(c))
    ELSE ErrorReport("get_projects")

\* lines 472-500, rs being the summary with its statistics
Enrich(rs, top, projects, c) ==
    FullReport(rs, top, ResolveNames(top, projects), CacheStats(c))

\* lines 472-475
Rank(rs, projects, c) == Enrich(rs, TopProjectsOf(rs.by_project), projects, c)

\* lines 469-508 and 518: the report made of the summary the loop left
Assemble(rs0, c, projects) == Rank(CalculateStatistics(rs0), projects, c)

\* get_settings() of the config module: it returns the settings or raises a
\* configuration error
GetSettings(settings_ok) == [raised |-> ~settings_ok]

---------------------------------------------------------------------------
(* State machine of the cache *)

\* the dates the cache is asked for
CacheDates == {Day0, Strftime(StartClock + TimedeltaDays(1))}

\* minutes the wall clock can move between two operations
Steps == {5, 60}

\* minutes an upstream call can take
FetchDurations == {0, 5}

NoRet == [op |-> "none"]

\* the threads that call get on the one _done_items_cache
ThreadIds == {1, 2}

\* a thread that is not in get
Idle == [pc |-> "idle"]

NoOutcome == [ok |-> FALSE, unused |-> TRUE]

\* no report has been noted
NoPrev == [op |-> "none"]

Init ==
    /\ clock = StartClock
    /\ cache = EmptyDict
    /\ expiry = EmptyDict
    /\ ret = NoRet
    /\ hist = EmptyDict
    /\ lastFailed = {}
    /\ th = [t \in ThreadIds |-> Idle]
    /\ prev = NoPrev

\* time passes between two calls, up to max minutes after the start
Tick(step, max) ==
    /\ ret = NoRet
    /\ clock + step <= StartClock + max
    /\ clock' = clock + step
    /\ hist' = Prune(hist, clock')
    /\ UNCHANGED <<cache, expiry, ret, lastFailed, th, prev>>

\* the caller takes what the call returned; the next call can start
Return ==
    /\ ret # NoRet
    /\ ret' = NoRet
    /\ UNCHANGED <<clock, cache, expiry, hist, lastFailed, th, prev>>

\* _done_items_cache.get(date, api_client); an upstream call takes dur
Get(date, outcome, dur) ==
    LET r == CacheGet(cache, expiry, date, clock, outcome)
        called == r.fetches > 0
    IN  /\ ret = NoRet
        /\ clock + dur <= StartClock + MaxElapsed
        /\ cache' = r.cache
        /\ expiry' = r.expiry
        /\ clock' = clock + (IF called THEN dur ELSE 0)
        /\ ret' = [op |-> "get", date |-> date, at |-> clock,
                   raised |-> r.raised, items |-> r.items,
                   fetches |-> r.fetches, cleaned |-> r.cleaned,
                   retry |-> date \in lastFailed,
                   replaced |-> IF date \in DOMAIN cache /\ called
                                THEN <<cache[date]>> ELSE None,
                   upstream |-> IF called THEN outcome ELSE NoOutcome]
        /\ hist' = Observe(hist, date, clock, called, outcome, clock')
        /\ lastFailed' = IF r.raised THEN lastFailed \cup {date}
                         ELSE lastFailed \ {date}
        /\ UNCHANGED <<th, prev>>

\* _done_items_cache.get_stats()
GetStats ==
    /\ ret = NoRet
    /\ ret' = [op |-> "get_stats", stats |-> CacheStats(cache)]
    /\ UNCHANGED <<clock, cache, expiry, hist, lastFailed, th, prev>>

NextCache ==
    \/ \E step \in Steps : Tick(step, MaxElapsed)
    \/ Return
    \/ \E date \in CacheDates, outcome \in Outcomes, dur \in FetchDurations :
          Get(date, outcome, dur)
    \/ GetStats

SpecCache == Init /\ [][NextCache]_vars

---------------------------------------------------------------------------
(* State machine of get called by threads.  The class takes no lock: a     *)
(* thread can be switched out between any two accesses of the dicts, each  *)
(* of which is atomic                                                      *)

\* the dates the threads ask for: a past date and the date that is today
\* until midnight
ThreadDates == {<<2024, 2, 27>>, Day0}

\* minutes the clock can move at any point of a call
ThreadSteps == {40}

\* what get_done_items answers for a date: items completed that day, in
\* one of two versions
DoneOn(date, id) == <<[kind |-> "dict", id |-> id, day |-> date]>>

ThreadOutcomes(date) == {Failure, Success(DoneOn(date, 1)), Success(DoneOn(date, 2))}

\* thread t goes to pc
Goto(t, pc) == th' = [th EXCEPT ![t].pc = pc]

\* the call of thread t is over: it returned items or raised error
Finish(t, items, error) ==
    th' = [th EXCEPT ![t] = [pc |-> "done", date |-> th[t].date,
                             current_time |-> th[t].current_time,
                             fetched |-> th[t].fetched,
                             items |-> items, error |-> error]]

\* lines 28-32: the call, the timestamp and the test for today
ThreadCall(t, date) ==
    /\ th[t].pc \in {"idle", "done"}
    /\ th' = [th EXCEPT ![t] =
                 [pc |-> IF IsToday(date, clock) THEN "fetch_today"
                         ELSE "in_cache",
                  date |-> date, current_time |-> clock, fetched |-> FALSE,
                  items |-> <<>>, size |-> 0, visited |-> {},
                  expired |-> {}, popping |-> None]]
    /\ UNCHANGED <<clock, cache, expiry, ret, hist, lastFailed, prev>>

\* line 34: today is fetched and returned
FetchedToday(t, outcome) ==
    /\ IF outcome.ok
       THEN th' = [th EXCEPT ![t] =
                     [pc |-> "done", date |-> th[t].date,
                      current_time |-> th[t].current_time,
                      fetched |-> TRUE, items |-> outcome.items,
                      error |-> "none"]]
       ELSE th' = [th EXCEPT ![t] =
                     [pc |-> "done", date |-> th[t].date,
                      current_time |-> th[t].current_time,
                      fetched |-> TRUE, items |-> <<>>,
                      error |-> "upstream"]]
    /\ UNCHANGED <<clock, cache, expiry, ret, hist, lastFailed, prev>>

ThreadFetchToday(t) ==
    /\ th[t].pc = "fetch_today"
    /\ \E outcome \in ThreadOutcomes(th[t].date) : FetchedToday(t, outcome)

\* line 56: date in self._cache
ThreadInCache(t) ==
    /\ th[t].pc = "in_cache"
    /\ Goto(t, IF th[t].date \in DOMAIN cache THEN "in_expiry" ELSE "fetch")
    /\ UNCHANGED <<clock, cache, expiry, ret, hist, lastFailed, prev>>

\* line 57: date in self._expiry
ThreadInExpiry(t) ==
    /\ th[t].pc = "in_expiry"
    /\ Goto(t, IF th[t].date \in DOMAIN expiry THEN "compare" ELSE "fetch")
    /\ UNCHANGED <<clock, cache, expiry, ret, hist, lastFailed, prev>>

\* line 58: current_time < self._expiry[date]; the subscript raises
\* KeyError when the key has gone
ThreadCompare(t) ==
    /\ th[t].pc = "compare"
    /\ IF th[t].date \notin DOMAIN expiry
       THEN Finish(t, <<>>, "KeyError")
       ELSE Goto(t, IF th[t].current_time < expiry[th[t].date]
                    THEN "read_cache" ELSE "fetch")
    /\ UNCHANGED <<clock, cache, expiry, ret, hist, lastFailed, prev>>

\* line 39: return self._cache[date]
ThreadReadCache(t) ==
    /\ th[t].pc = "read_cache"
    /\ IF th[t].date \notin DOMAIN cache
       THEN Finish(t, <<>>, "KeyError")
       ELSE Finish(t, cache[th[t].date], "none")
    /\ UNCHANGED <<clock, cache, expiry, ret, hist, lastFailed, prev>>

\* line 43: items = api_client.get_done_items(date=date)
Fetched(t, outcome) ==
    /\ IF outcome.ok
       THEN th' = [th EXCEPT ![t].pc = "store_cache", ![t].fetched = TRUE,
                             ![t].items = outcome.items]
       ELSE th' = [th EXCEPT ![t] =
                     [pc |-> "done", date |-> th[t].date,
                      current_time |-> th[t].current_time,
                      fetched |-> TRUE, items |-> <<>>,
                      error |-> "upstream"]]
    /\ UNCHANGED <<clock, cache, expiry, ret, hist, lastFailed, prev>>

ThreadFetch(t) ==
    /\ th[t].pc = "fetch"
    /\ \E outcome \in ThreadOutcomes(th[t].date) : Fetched(t, outcome)

\* line 45: self._cache[date] = items
ThreadStoreCache(t) ==
    /\ th[t].pc = "store_cache"
    /\ cache' = DictSet(cache, th[t].date, th[t].items)
    /\ Goto(t, "store_expiry")
    /\ UNCHANGED <<clock, expiry, ret, hist, lastFailed, prev>>

\* line 46: self._expiry[date] = current_time + timedelta(minutes=10)
ThreadStoreExpiry(t) ==
    /\ th[t].pc = "store_expiry"
    /\ expiry' = DictSet(expiry, th[t].date,
                         th[t].current_time
                             + TimedeltaMinutes(CACHE_TTL_MINUTES))
    /\ Goto(t, "iter_start")
    /\ UNCHANGED <<clock, cache, ret, hist, lastFailed, prev>>

\* lines 64-66: the iteration over self._expiry.items() begins; the
\* iterator notes the size of the dict
ThreadIterStart(t) ==
    /\ th[t].pc = "iter_start"
    /\ th' = [th EXCEPT ![t].pc = "iter",
                        ![t].size = Cardinality(DOMAIN expiry),
                        ![t].visited = {}, ![t].expired = {}]
    /\ UNCHANGED <<clock, cache, expiry, ret, hist, lastFailed, prev>>

\* the keys the iteration of thread t has still to come to
Unvisited(t) == DOMAIN expiry \ th[t].visited

\* lines 64-68: one step of the iteration.  The iterator raises
\* RuntimeError (dictionary changed size during iteration) when the dict
\* has not the size it began with; else it yields the next key, which is
\* kept when its expiry is before the threshold, or it ends
ThreadIterNext(t) ==
    /\ th[t].pc = "iter"
    /\ IF Cardinality(DOMAIN expiry) # th[t].size
       THEN Finish(t, <<>>, "RuntimeError")
       ELSE IF Unvisited(t) = {}
       THEN IF th[t].expired = {}
            THEN Finish(t, th[t].items, "none")
            ELSE Goto(t, "pop_cache")
       ELSE \E k \in Unvisited(t) :
               th' = [th EXCEPT
                        ![t].visited = @ \cup {k},
                        ![t].expired =
                            IF expiry[k] < th[t].current_time
                                   - TimedeltaHours(CACHE_CLEANUP_HOURS)
                            THEN @ \cup {k} ELSE @]
    /\ UNCHANGED <<clock, cache, expiry, ret, hist, lastFailed, prev>>

\* line 71: self._cache.pop(expired_date, None)
ThreadPopCache(t) ==
    /\ th[t].pc = "pop_cache"
    /\ \E d \in th[t].expired :
          /\ cache' = DictPop(cache, d)
          /\ th' = [th EXCEPT ![t].pc = "pop_expiry", ![t].popping = d]
    /\ UNCHANGED <<clock, expiry, ret, hist, lastFailed, prev>>

\* line 72: self._expiry.pop(expired_date, None), and line 51 after the
\* last one
ThreadPopExpiry(t) ==
    /\ th[t].pc = "pop_expiry"
    /\ expiry' = DictPop(expiry, th[t].popping)
    /\ IF th[t].expired = {th[t].popping}
       THEN Finish(t, th[t].items, "none")
       ELSE th' = [th EXCEPT ![t].pc = "pop_cache",
                             ![t].expired = @ \ {th[t].popping},
                             ![t].popping = None]
    /\ UNCHANGED <<clock, cache, ret, hist, lastFailed, prev>>

\* time passes, at any point of the calls
ThreadTick(step) ==
    /\ clock + step <= StartClock + MaxThreadElapsed
    /\ clock' = clock + step
    /\ UNCHANGED <<cache, expiry, ret, hist, lastFailed, th, prev>>

NextThreads ==
    \/ \E step \in ThreadSteps : ThreadTick(step)
    \/ \E t \in ThreadIds :
          \/ \E date \in ThreadDates : ThreadCall(t, date)
          \/ ThreadFetchToday(t)
          \/ ThreadInCache(t)
          \/ ThreadInExpiry(t)
          \/ ThreadCompare(t)
          \/ ThreadReadCache(t)
          \/ ThreadFetch(t)
          \/ ThreadStoreCache(t)
          \/ ThreadStoreExpiry(t)
          \/ ThreadIterStart(t)
          \/ ThreadIterNext(t)
          \/ ThreadPopCache(t)
          \/ ThreadPopExpiry(t)

SpecThreads == Init /\ [][NextThreads]_vars

---------------------------------------------------------------------------
(* State machine of the report *)

\* the arguments the report is asked with
ReportArgs ==
    {[days |-> <<3>>, start_date |-> None, end_date |-> None],
     [days |-> None, start_date |-> <<2024, 2, 27>>,
      end_date |-> <<2024, 2, 29>>],
     [days |-> None, start_date |-> <<2024, 2, 28>>, end_date |-> None],
     [days |-> None, start_date |-> <<2024, 2, 29>>,
      end_date |-> <<2024, 2, 27>>],
     [days |-> <<2>>, start_date |-> <<2024, 2, 30>>, end_date |-> None]}

\* what get_done_items can answer during a report
ReportOutcomes ==
    {Failure, Success(<<Item1>>), Success(<<Item2, Item3>>),
     Success(<<Item3, BadItem, Item1>>)}

\* what get_projects can answer
ProjectOutcomes ==
    {Failure,
     Success(<<[_id |-> "p1", title |-> "Alpha"], [_id |-> "p2"]>>)}

\* minutes the wall clock can move between two reports
ReportSteps == {5}

\* the caller has the report step minutes after it was returned
ReturnLater(step) ==
    /\ ret # NoRet
    /\ ret' = NoRet
    /\ clock' = clock + step
    /\ hist' = Prune(hist, clock')
    /\ UNCHANGED <<cache, expiry, lastFailed, th, prev>>

SeqToSet(seq) == {seq[i] : i \in 1..Len(seq)}

\* the state the loop of the report starts in
LoopStart(rs) ==
    [cache |-> cache, expiry |-> expiry, now |-> clock, hist |-> hist,
     rs |-> rs, calls |-> 0, failed |-> {}, fetched |-> {}, live |-> {},
     got |-> EmptyDict]

\* the call is over: st is what the loop left, report what is returned
ReportReturns(args, configured, raised, report, date_list, st, projects) ==
    /\ clock' = st.now
    /\ cache' = st.cache
    /\ expiry' = st.expiry
    /\ hist' = st.hist
    /\ UNCHANGED <<lastFailed, th>>
    /\ ret' = [op |-> "report", args |-> args, at |-> clock,
               configured |-> configured,
               raised |-> raised, report |-> report,
               dates |-> date_list, rs |-> st.rs, calls |-> st.calls,
               failed |-> st.failed, got |-> st.got,
               fetched |-> st.fetched, live |-> st.live,
               projects_ok |-> projects.ok]

\* lines 445-518, st being what the loop left
ReportLoopDone(args, date_list, st, projects) ==
    ReportReturns(args, TRUE, FALSE, Assemble(st.rs, st.cache, projects),
                  date_list, st, projects)

\* the loop of lines 466-467 and what follows it, over every way the
\* upstream can answer for the dates with one of answers
ReportLoop(args, g, projects, dur, answers) ==
    \E up \in [SeqToSet(g.date_list) -> answers] :
            ReportLoopDone(args, g.date_list,
                ProcessDates(g.date_list, 1, up, dur,
                    LoopStart(NewRangeSummary(g.date_list, g.start, g.end))),
                projects)

\* a report builder without the except clause of lines 509-517
ReportTryNoExcept(args, g, projects, dur, answers) ==
    IF g.raised
    THEN ReportReturns(args, TRUE, TRUE, <<>>, <<>>, LoopStart(<<>>), projects)
    ELSE ReportLoop(args, g, projects, dur, answers)

\* lines 445-518, g being what _generate_date_range did
ReportTry(args, g, projects, dur, answers) ==
    IF g.raised
    THEN ReportReturns(args, TRUE, FALSE, ErrorReport("ValueError"), <<>>,
                       LoopStart(<<>>), projects)
    ELSE ReportLoop(args, g, projects, dur, answers)

\* get_productivity_summary_for_time_range_util(days, start_date, end_date)
ReportCall(args, settings_ok, projects, dur, answers) ==
    /\ ret = NoRet
    /\ clock <= StartClock + MaxReportElapsed
    /\ IF GetSettings(settings_ok).raised
       THEN ReportReturns(args, FALSE, TRUE, <<>>, <<>>, LoopStart(<<>>),
                          projects)
       ELSE ReportTry(args,
                GenerateDateRange(args.days, args.start_date, args.end_date,
                                  clock),
                projects, dur, answers)

Report(args, settings_ok, projects, dur) ==
    /\ ReportCall(args, settings_ok, projects, dur, ReportOutcomes)
    /\ UNCHANGED prev

NextReport ==
    \/ \E step \in ReportSteps : ReturnLater(step)
    \/ \E args \in ReportArgs, settings_ok \in BOOLEAN,
          projects \in ProjectOutcomes, dur \in FetchDurations :
          Report(args, settings_ok, projects, dur)

SpecReport == Init /\ [][NextReport]_vars

---------------------------------------------------------------------------
(* Reports in a row on the one process-wide cache *)

\* the arguments the reports in a row are asked with
TwoReportArgs ==
    {[days |-> <<3>>, start_date |-> None, end_date |-> None],
     [days |-> None, start_date |-> <<2024, 2, 27>>,
      end_date |-> <<2024, 2, 29>>]}

\* minutes an upstream call can take here
TwoReportDurations == {0, 2, 3}

\* what get_done_items can answer here
TwoReportOutcomes == {Failure, Success(<<Item1>>)}

\* what the observer notes of the report r that ended at time end: when
\* it started, its dates, those the upstream was called for, those whose
\* get raised and those that were today at their get; p is the note of the
\* report before
Noted(r, end, p) ==
    IF r.raised \/ r.report.kind # "full" THEN NoPrev
    ELSE [op |-> "report", at |-> r.at, end |-> end, dates |-> r.dates,
          fetched |-> r.fetched, failed |-> r.failed, live |-> r.live,
          before |-> IF p = NoPrev THEN None
                     ELSE <<[p EXCEPT !.before = None]>>]

ReportNoted(args, settings_ok, projects, dur) ==
    /\ ReportCall(args, settings_ok, projects, dur, TwoReportOutcomes)
    /\ prev' = Noted(ret', clock', prev)

NextTwoReports ==
    \/ \E step \in ReportSteps : ReturnLater(step)
    \/ \E args \in TwoReportArgs, settings_ok \in BOOLEAN,
          projects \in ProjectOutcomes, dur \in TwoReportDurations :
          ReportNoted(args, settings_ok, projects, dur)

SpecTwoReports == Init /\ [][NextTwoReports]_vars

---------------------------------------------------------------------------
(* Properties of the cache *)

TTL == TimedeltaMinutes(CACHE_TTL_MINUTES)

\* the entries whose expiry is still ahead at time now
LiveDates(now) == {d \in DOMAIN expiry : now < expiry[d]}

\* C1: for a date that is not today, a get within 10 minutes of the call
\* that fetched it successfully returns the items of that fetch and does
\* not call the upstream
C1_HitWithinTTL ==
    [][(/\ ret'.op = "get"
        /\ ret'.date \in DOMAIN hist
        /\ clock < hist[ret'.date].at + TTL
        /\ ret'.date # Strftime(clock))
       => (/\ ret'.fetches = 0
           /\ ~ret'.raised
           /\ ret'.items = hist[ret'.date].items)]_vars

\* a later get of a cached past date was served from the cache
C1_Witness ==
    /\ ret.op = "get"
    /\ ret.date \in DOMAIN hist
    /\ hist[ret.date].at < ret.at
    /\ ret.at < hist[ret.date].at + TTL
    /\ ret.date # Strftime(ret.at)
    /\ ret.fetches = 0
    /\ ret.items # <<>>

\* C2: a get of today calls the upstream exactly once and returns its
\* answer, and no get creates or overwrites an entry for the date that is
\* today when it is called
C2_TodayAlwaysLive ==
    [][ret'.op = "get" =>
        LET today == Strftime(clock)
        IN  /\ ret'.date = today =>
                  /\ ret'.fetches = 1
                  /\ ret'.raised = ~ret'.upstream.ok
                  /\ ret'.upstream.ok => ret'.items = ret'.upstream.items
            /\ today \in DOMAIN cache' =>
                  today \in DOMAIN cache /\ cache'[today] = cache[today]
            /\ today \in DOMAIN expiry' =>
                  today \in DOMAIN expiry /\ expiry'[today] = expiry[today]
      ]_vars

\* today was fetched live although an entry for it is still live
C2_Witness ==
    /\ ret.op = "get"
    /\ ret.date = Strftime(ret.at)
    /\ ret.fetches = 1
    /\ ~ret.raised
    /\ ret.date \in DOMAIN cache
    /\ ret.at < expiry[ret.date]
    /\ ret.items # cache[ret.date]

\* C4: when the upstream call fails inside get, the call raises and both
\* maps are what they were
C4_FailureLeavesCache ==
    [][(ret'.op = "get" /\ ret'.fetches > 0 /\ ~ret'.upstream.ok)
       => (ret'.raised /\ cache' = cache /\ expiry' = expiry)]_vars

\* a failed get of a past date whose expired entry is still there
C4_Witness ==
    /\ ret.op = "get"
    /\ ret.raised
    /\ ret.date # Strftime(ret.at)
    /\ ret.date \in DOMAIN cache
    /\ ret.date \in DOMAIN expiry
    /\ expiry[ret.date] <= ret.at

\* C7 as claimed: get_stats counts the live entries only
C7_StatsCountLiveOnly ==
    ret.op = "get_stats" =>
        /\ ret.stats.cached_dates = Cardinality(LiveDates(clock))
        /\ ret.stats.total_cached_items =
              SumOver([d \in LiveDates(clock) |-> Len(cache[d])],
                      LiveDates(clock))

\* C7 amended: get_stats counts every entry that is stored, the live ones
\* and the expired ones no cleanup has removed yet
C7_StatsCountStored ==
    ret.op = "get_stats" =>
        LET stale == {d \in DOMAIN expiry : expiry[d] <= clock}
        IN  /\ ret.stats.cached_dates =
                  Cardinality(LiveDates(clock)) + Cardinality(stale)
            /\ ret.stats.total_cached_items =
                  SumOver([d \in DOMAIN expiry |-> Len(cache[d])],
                          LiveDates(clock))
                  + SumOver([d \in DOMAIN expiry |-> Len(cache[d])], stale)

\* get_stats counted an expired entry with items in it, next to a live one
C7_Witness ==
    /\ ret.op = "get_stats"
    /\ \E d \in DOMAIN expiry : expiry[d] <= clock /\ Len(cache[d]) > 0
    /\ LiveDates(clock) # {}
    /\ ret.stats.cached_dates = 2

\* C8: after a get that missed and stored at time now, no entry has an
\* expiry before now - 1 hour, get_stats counts none, and what the cleanup
\* removed is gone from both maps
C8_CleanupAfterStore ==
    (/\ ret.op = "get"
     /\ ret.fetches = 1
     /\ ~ret.raised
     /\ ret.date # Strftime(ret.at))
    => LET threshold == ret.at - TimedeltaHours(CACHE_CLEANUP_HOURS)
       IN  /\ \A d \in DOMAIN expiry : ~(expiry[d] < threshold)
           /\ DOMAIN cache = DOMAIN expiry
           /\ ret.cleaned \cap (DOMAIN cache \cup DOMAIN expiry) = {}
           /\ CacheStats(cache).cached_dates =
                 Cardinality({d \in DOMAIN expiry : expiry[d] >= threshold})

\* a miss-and-store whose cleanup removed an entry
C8_Witness ==
    /\ ret.op = "get"
    /\ ret.fetches = 1
    /\ ~ret.raised
    /\ ret.date # Strftime(ret.at)
    /\ ret.cleaned # {}
    /\ ret.date \in DOMAIN cache

\* a get of a date whose latest get had raised
GetAfterFailure ==
    /\ ret = NoRet
    /\ ret'.op = "get"
    /\ ret'.date \in lastFailed

\* the upstream was called and what it answered is what get did
Refetched ==
    /\ ret'.fetches = 1
    /\ ret'.upstream # NoOutcome
    /\ ret'.raised = ~ret'.upstream.ok
    /\ ret'.upstream.ok => ret'.items = ret'.upstream.items

\* the latest get of today had raised; this one fetched again and got
\* items, and nothing was stored
C16_WitnessToday ==
    /\ ret.op = "get"
    /\ ret.retry
    /\ ret.date = Strftime(ret.at)
    /\ ret.fetches = 1
    /\ ret.items # <<>>
    /\ ret.date \notin DOMAIN cache

\* C16 as claimed: the get(d) that follows a get(d) whose fetch failed
\* calls the upstream again, and when that fetch succeeds its result is
\* returned and cached
C16_RetryFetchesAndCaches ==
    [][GetAfterFailure =>
        /\ Refetched
        /\ ret'.upstream.ok =>
              /\ ret'.date \in DOMAIN cache'
              /\ cache'[ret'.date] = ret'.items
              /\ IsCachedAndValid(cache', expiry', ret'.date, ret'.at)]_vars

\* C16 as amended: the get(d) that follows a get(d) whose fetch failed
\* calls the upstream again; when that fetch succeeds its result is
\* returned, and it is cached for 10 minutes unless d is today
C16_RetryFetches ==
    [][GetAfterFailure =>
        /\ Refetched
        /\ (ret'.upstream.ok /\ ~IsToday(ret'.date, ret'.at)) =>
              /\ ret'.date \in DOMAIN cache'
              /\ cache'[ret'.date] = ret'.items
              /\ expiry'[ret'.date] = ret'.at + TTL
        /\ (ret'.upstream.ok /\ IsToday(ret'.date, ret'.at)) =>
              cache' = cache /\ expiry' = expiry]_vars

\* the latest get of a date that is not today had raised; this one
\* fetched again, got items and stored them
C16_Witness ==
    /\ ret.op = "get"
    /\ ret.retry
    /\ ret.date # Strftime(ret.at)
    /\ ret.fetches = 1
    /\ ret.items # <<>>
    /\ ret.date \in DOMAIN cache
    /\ cache[ret.date] = ret.items
    /\ ret.date \in DOMAIN hist
    /\ hist[ret.date].at = ret.at

\* a get that has just returned after fetching and storing its date
Stored ==
    /\ ret.op = "get"
    /\ ret.fetches = 1
    /\ ~ret.raised
    /\ ret.date # Strftime(ret.at)

\* C22: the expiry of an entry is the time its get call took at its start
\* plus 10 minutes, however long the fetch lasted, and no other step
\* gives an entry another expiry: a hit does not extend it.  A get serves
\* an entry only when its own start time is before the entry's expiry.
C22_ExpiryFromSnapshot ==
    [][/\ \A d \in DOMAIN expiry' :
             IF Stored' /\ ret = NoRet /\ ret'.date = d
             THEN /\ ret'.at = clock
                  /\ expiry'[d] = clock + TTL
             ELSE d \in DOMAIN expiry /\ expiry'[d] = expiry[d]
       /\ (ret = NoRet /\ ret'.op = "get" /\ ret'.fetches = 0) =>
             /\ ret'.date \in DOMAIN expiry
             /\ clock < expiry[ret'.date]
             /\ ret'.items = cache[ret'.date]
             /\ expiry' = expiry]_vars

\* a fetch that took 5 minutes: the entry expires 10 minutes after the
\* start of the call, 5 minutes after its return
C22_Witness ==
    /\ Stored
    /\ clock = ret.at + 5
    /\ expiry[ret.date] = ret.at + TTL
    /\ expiry[ret.date] = clock + 5

\* a hit 5 minutes after the store: the entry still expires 10 minutes
\* after the storing call
C22_WitnessHit ==
    /\ ret.op = "get"
    /\ ret.fetches = 0
    /\ ret.date \in DOMAIN hist
    /\ ret.at = hist[ret.date].at + 5
    /\ expiry[ret.date] = hist[ret.date].at + TTL

\* a get of a date that is not today and whose entry has expired
GetOfExpired ==
    /\ ret = NoRet
    /\ ret'.op = "get"
    /\ ~IsToday(ret'.date, clock)
    /\ ret'.date \in DOMAIN cache
    /\ ret'.date \in DOMAIN expiry
    /\ expiry[ret'.date] <= clock

\* what the cache serves of a date is what the latest successful fetch of
\* the date stored: the observer's note of it and the entry agree
ServesLatestFetch ==
    \A d \in LiveDates(clock) :
        /\ d \in DOMAIN hist
        /\ d \in DOMAIN cache
        /\ cache[d] = hist[d].items
        /\ expiry[d] = hist[d].at + TTL

\* C23: a get of a past date whose entry has expired calls the upstream,
\* and when the fetch succeeds the entry is replaced as a whole: the call
\* returns the fetched items, the entry holds exactly these and expires 10
\* minutes after the start of the call.  From then on the cache serves
\* the items of the latest successful fetch, never those stored before.
C23_ExpiredEntryReplaced ==
    /\ [][GetOfExpired =>
            /\ ret'.fetches = 1
            /\ ret'.upstream # NoOutcome
            /\ ret'.upstream.ok =>
                  /\ ~ret'.raised
                  /\ ret'.items = ret'.upstream.items
                  /\ cache'[ret'.date] = ret'.upstream.items
                  /\ expiry'[ret'.date] = clock + TTL]_vars
    /\ []ServesLatestFetch

\* an expired entry with items was replaced by a fetch that brought others
C23_Witness ==
    /\ Stored
    /\ ret.replaced # None
    /\ ret.replaced[1] # <<>>
    /\ ret.items # <<>>
    /\ ret.replaced[1] # ret.items
    /\ cache[ret.date] = ret.items
    /\ expiry[ret.date] = ret.at + TTL

\* C28: a get that is a hit and a get of the date that is today leave
\* both maps as they were: no entry is added, removed or replaced, no
\* expiry changes and no cleanup removes anything, even when an entry is
\* old enough to be removed.  The one step that changes a map is a get
\* that fetched and stored a date that is not today.
C28_OnlyStoreWrites ==
    [][/\ (/\ ret = NoRet
           /\ ret'.op = "get"
           /\ ret'.fetches = 0 \/ ret'.date = Strftime(clock))
          => (cache' = cache /\ expiry' = expiry /\ ret'.cleaned = {})
       /\ (cache' # cache \/ expiry' # expiry)
          => (/\ ret = NoRet
              /\ ret'.op = "get"
              /\ ret'.fetches = 1
              /\ ~ret'.raised
              /\ ret'.date # Strftime(clock))]_vars

\* the entries a cleanup at time now would remove
Removable(now) ==
    {d \in DOMAIN expiry : expiry[d] < now - TimedeltaHours(CACHE_CLEANUP_HOURS)}

\* a hit while another entry is more than an hour past its expiry: the old
\* entry is still there
C28_Witness ==
    /\ ret.op = "get"
    /\ ret.fetches = 0
    /\ Removable(ret.at) # {}
    /\ ret.date \notin Removable(ret.at)

\* a get of today while an entry is more than an hour past its expiry
C28_WitnessToday ==
    /\ ret.op = "get"
    /\ ret.date = Strftime(ret.at)
    /\ ret.fetches = 1
    /\ ~ret.raised
    /\ Removable(ret.at) # {}

\* C29: a get of the date that is today when it is called never serves
\* an entry of that date, not even one that was stored while the date was
\* still to come and that has not expired: it calls the upstream and
\* returns what it answers, or raises when the upstream fails, and the
\* entry stays as it was
C29_TodayNotFromCache ==
    [][(/\ ret = NoRet
        /\ ret'.op = "get"
        /\ ret'.date = Strftime(clock)
        /\ ret'.date \in DOMAIN cache)
       => (/\ ret'.fetches = 1
           /\ ret'.upstream # NoOutcome
           /\ ret'.raised = ~ret'.upstream.ok
           /\ ret'.upstream.ok => ret'.items = ret'.upstream.items
           /\ cache' = cache
           /\ expiry' = expiry)]_vars

\* the date was stored with items before midnight, while it was tomorrow;
\* after midnight, the entry not yet expired, a get of it fetched live and
\* returned other items than the entry holds
C29_Witness ==
    /\ ret.op = "get"
    /\ ret.date = Strftime(ret.at)
    /\ ret.date \in DOMAIN hist
    /\ Strftime(hist[ret.date].at) # ret.date
    /\ hist[ret.date].at < Strptime(ret.date)
    /\ ret.at < expiry[ret.date]
    /\ cache[ret.date] # <<>>
    /\ ret.fetches = 1
    /\ ~ret.raised
    /\ ret.items # cache[ret.date]

\* the same get when the upstream fails: it raises, the live entry is not
\* served
C29_WitnessRaised ==
    /\ ret.op = "get"
    /\ ret.date = Strftime(ret.at)
    /\ ret.date \in DOMAIN cache
    /\ ret.at < expiry[ret.date]
    /\ ret.raised

\* C30: when the calls come one after the other, the items map and the
\* expiry map have the same dates as keys after every operation: a get
\* that stored, a get that raised, a get that was served, and the cleanup
\* a store runs
C30_SameKeys == DOMAIN cache = DOMAIN expiry

\* a store whose cleanup removed the other entry: both maps hold the
\* stored date and nothing else
C30_Witness ==
    /\ Stored
    /\ ret.cleaned # {}
    /\ DOMAIN cache = {ret.date}
    /\ DOMAIN expiry = {ret.date}

\* a get that raised while both maps hold two dates
C30_WitnessRaised ==
    /\ ret.op = "get"
    /\ ret.raised
    /\ Cardinality(DOMAIN cache) = 2
    /\ DOMAIN expiry = DOMAIN cache

---------------------------------------------------------------------------
(* Properties of get called by threads *)

\* no thread is inside get
AllFinished == \A t \in ThreadIds : th[t].pc \in {"idle", "done"}

\* C17: DoneItemsCache is thread-safe.  Whatever the interleaving of the
\* calls of get, a call that is over has returned or has raised what the
\* upstream raised, the items it returned are items of the date it asked
\* for, and when no call is under way the two dicts have the same keys
C17_ThreadSafe ==
    /\ \A t \in ThreadIds :
          th[t].pc = "done" =>
              /\ th[t].error \in {"none", "upstream"}
              /\ \A i \in 1..Len(th[t].items) :
                    th[t].items[i].day = th[t].date
    /\ AllFinished => DOMAIN cache = DOMAIN expiry

\* two calls of get for the same date that was not today, both of which
\* fetched it and returned
BothFetched(a, b) ==
    /\ a # b
    /\ th[a].pc = "done" /\ th[b].pc = "done"
    /\ th[a].date = th[b].date
    /\ ~IsToday(th[a].date, th[a].current_time)
    /\ ~IsToday(th[b].date, th[b].current_time)
    /\ th[a].fetched /\ th[b].fetched
    /\ th[a].error = "none" /\ th[b].error = "none"

\* C18: when two calls of get for the same past date have both fetched it
\* and are both over, the cache holds an entry for the date, with the
\* items one of the two fetched and the expiry one of the two set
C18_DuplicateFetchHarmless ==
    \A a, b \in ThreadIds :
        BothFetched(a, b) =>
            /\ th[a].date \in DOMAIN cache
            /\ th[a].date \in DOMAIN expiry
            /\ cache[th[a].date] \in {th[a].items, th[b].items}
            /\ expiry[th[a].date] \in {th[a].current_time + TTL,
                                       th[b].current_time + TTL}

---------------------------------------------------------------------------
(* State machine of the date range expansion *)

\* the date strings tried: around the end of February of a leap year, and
\* two strings that are no dates
DateStrings ==
    {<<2024, 2, 27>>, <<2024, 2, 28>>, <<2024, 2, 29>>, <<2024, 3, 1>>,
     <<2024, 2, 30>>, <<2024, 13, 1>>}

DaysArgs == {None} \cup {<<n>> : n \in (-1)..MaxDays}

CallGenerateDateRange(days, start_date, end_date) ==
    /\ ret = NoRet
    /\ ret' = [op |-> "range", days |-> days, start_date |-> start_date,
               end_date |-> end_date, at |-> clock,
               result |-> GenerateDateRange(days, start_date, end_date, clock)]
    /\ UNCHANGED <<clock, cache, expiry, hist, lastFailed, th, prev>>

NextRange ==
    \/ \E step \in Steps : Tick(step, MaxElapsed)
    \/ Return
    \/ \E days \in DaysArgs, start_date \in DateStrings \cup {None},
          end_date \in DateStrings \cup {None} :
          CallGenerateDateRange(days, start_date, end_date)

SpecRange == Init /\ [][NextRange]_vars

---------------------------------------------------------------------------
(* Properties of the date range expansion *)

\* the calendar day after a date, read off the calendar
NextDay(s) ==
    IF s[3] < MonthLength(s[1], s[2]) THEN <<s[1], s[2], s[3] + 1>>
    ELSE IF s[2] < 12 THEN <<s[1], s[2] + 1, 1>>
    ELSE <<s[1] + 1, 1, 1>>

\* a is an earlier date than b
DateBefore(a, b) ==
    \/ a[1] < b[1]
    \/ a[1] = b[1] /\ a[2] < b[2]
    \/ a[1] = b[1] /\ a[2] = b[2] /\ a[3] < b[3]

ExplicitCall ==
    /\ ret.op = "range"
    /\ Truthy(ret.start_date) /\ ValidDate(ret.start_date)
    /\ Truthy(ret.end_date) /\ ValidDate(ret.end_date)

\* C9: with start_date and end_date given, the result is every date from
\* start to end, once each, ascending; it is empty when start is after end,
\* and nothing is raised
C9_ExplicitRangeAscending ==
    ExplicitCall =>
        /\ ~ret.result.raised
        /\ LET l == ret.result.date_list
           IN  IF DateBefore(ret.end_date, ret.start_date)
               THEN l = <<>>
               ELSE /\ Len(l) >= 1
                    /\ l[1] = ret.start_date
                    /\ l[Len(l)] = ret.end_date
                    /\ \A i \in 1..(Len(l) - 1) : l[i + 1] = NextDay(l[i])
                    /\ Len(l) = Ymd2Ord(ret.end_date) - Ymd2Ord(ret.start_date) + 1

\* an explicit range over the 29th of February and the turn of the month
C9_Witness ==
    /\ ExplicitCall
    /\ ret.start_date = <<2024, 2, 28>>
    /\ ret.end_date = <<2024, 3, 1>>
    /\ ret.result.date_list = <<<<2024, 2, 28>>, <<2024, 2, 29>>, <<2024, 3, 1>>>>

DayCountCall ==
    /\ ret.op = "range"
    /\ ~Truthy(ret.start_date)
    /\ ret.days = None \/ ret.days[1] >= 0

\* C10: without start_date the result is `days` dates (7 when days is
\* unset), today first and each the day before the one before it; start is
\* today - (days - 1), end is today, and end_date plays no part
C10_DayCountDescending ==
    DayCountCall =>
        LET n == IF ret.days = None THEN 7 ELSE ret.days[1]
            l == ret.result.date_list
        IN  /\ ~ret.result.raised
            /\ Len(l) = n
            /\ n >= 1 => l[1] = Strftime(ret.at)
            /\ \A i \in 1..(Len(l) - 1) : NextDay(l[i + 1]) = l[i]
            /\ ret.result.end = ret.at
            /\ ret.result.start = ret.at - (n - 1) * MinutesPerDay
            /\ n >= 1 => Strftime(ret.result.start) = l[n]
            /\ ret.result =
                  GenerateDateRange(ret.days, ret.start_date, None, ret.at)

\* the default of 7 days counted back from the 29th of February, with an
\* end_date that is not even a date
C10_Witness ==
    /\ DayCountCall
    /\ ret.days = None
    /\ ret.end_date = <<2024, 2, 30>>
    /\ Len(ret.result.date_list) = 7
    /\ ret.result.date_list[1] = <<2024, 2, 29>>
    /\ ret.result.date_list[7] = <<2024, 2, 23>>

StartOnlyCall ==
    /\ ret.op = "range"
    /\ Truthy(ret.start_date) /\ ValidDate(ret.start_date)
    /\ ~Truthy(ret.end_date)

\* C11: with start_date given and no end_date the range ends at today: end
\* is now, period_end of the report is today, and when start_date is not
\* after today the dates run from start_date to today, today being the
\* last one; nothing is raised
C11_StartOnlyEndsToday ==
    StartOnlyCall =>
        /\ ~ret.result.raised
        /\ ret.result.end = ret.at
        /\ NewRangeSummary(ret.result.date_list, ret.result.start,
                           ret.result.end).period_end = Strftime(ret.at)
        /\ LET l == ret.result.date_list
               today == Strftime(ret.at)
           IN  IF DateBefore(today, ret.start_date)
               THEN l = <<>>
               ELSE /\ Len(l) >= 1
                    /\ l[1] = ret.start_date
                    /\ l[Len(l)] = today
                    /\ \E i \in 1..Len(l) : l[i] = today
                    /\ \A i \in 1..(Len(l) - 1) : l[i + 1] = NextDay(l[i])

\* a range from the 27th of February asked for at midnight sharp of the
\* 29th
C11_Witness ==
    /\ StartOnlyCall
    /\ ret.start_date = <<2024, 2, 27>>
    /\ ret.at = Strptime(<<2024, 2, 29>>)
    /\ ret.result.date_list = <<<<2024, 2, 27>>, <<2024, 2, 28>>, <<2024, 2, 29>>>>

---------------------------------------------------------------------------
(* State machine of the ranking of the projects *)

\* the keys of by_project, in the order they were first seen
ProjectIds ==
    <<"p1", "p2", "unassigned", "p3", "p4", "p5", "p6", "p7", "p8", "p9">>

\* the by_project dicts that are ranked: up to most keys, each with one
\* to items completed items
ByProjects(most, items) ==
    UNION {{[i \in 1..n |-> [k |-> ProjectIds[i], v |-> c[i]]] :
                c \in [1..n -> 1..items]} : n \in 0..most}

\* lines 473-475 on their own
CallTopProjects(by_project) ==
    /\ ret = NoRet
    /\ ret' = [op |-> "top_projects", by_project |-> by_project,
               top_projects |-> TopProjectsOf(by_project)]
    /\ UNCHANGED <<clock, cache, expiry, hist, lastFailed, th, prev>>

NextTop ==
    \/ Return
    \/ \E by_project \in ByProjects(MaxProjects, MaxCount) :
          CallTopProjects(by_project)

SpecTop == Init /\ [][NextTop]_vars

\* the smaller of two numbers
Min(a, b) == IF a < b THEN a ELSE b

\* C14: top_projects has min(5, number of keys of by_project) pairs of a
\* project of by_project and its count there, no project twice, in order
\* of non-increasing count, and no project left out has more than any
\* project that is in
C14_TopProjectsRanked ==
    ret.op = "top_projects" =>
        LET bp  == ret.by_project
            top == ret.top_projects
            ins == {top[i].id : i \in 1..Len(top)}
        IN  /\ Len(top) = Min(5, Len(bp))
            /\ \A i \in 1..Len(top) :
                  /\ ODHas(bp, top[i].id)
                  /\ top[i].count = ODGet(bp, top[i].id)
            /\ Cardinality(ins) = Len(top)
            /\ \A i \in 1..(Len(top) - 1) : top[i].count >= top[i + 1].count
            /\ \A j \in 1..Len(bp) :
                  bp[j].k \notin ins =>
                      \A i \in 1..Len(top) : bp[j].v <= top[i].count

\* six projects, the one with the fewest items is left out
C14_Witness ==
    /\ ret.op = "top_projects"
    /\ Len(ret.by_project) = 6
    /\ Len(ret.top_projects) = 5
    /\ ret.top_projects[1].count = 3
    /\ ret.top_projects[5].count = 2
    /\ \E j \in 1..6 : ret.by_project[j].v = 1

---------------------------------------------------------------------------
(* The batch operations: batch_create_tasks_util and batch_mark_done *)

\* what a task_list can hold: a title, a dict without and with a parentId,
\* and something that is neither a string nor a dict
TaskInfos ==
    {[kind |-> "str", title |-> "a"],
     [kind |-> "dict", data |-> [title |-> "b"]],
     [kind |-> "dict", data |-> [title |-> "c", parentId |-> "px"]],
     [kind |-> "int"]}

TaskIds == {"t1", "t2"}

\* an optional string is given and not empty
Given(s) == s # None /\ s[1] # ""

\* lines 239-241: a field is added unless the task has it
WithDefault(task_data, key, value) ==
    IF Given(value) /\ key \notin DOMAIN task_data
    THEN DictSet(task_data, key, value[1])
    ELSE task_data

\* lines 232-242: the task_data of a task; anything but a string or a dict
\* has no copy()
TaskData(task_info, project_id, category_id) ==
    IF task_info.kind = "str"
    THEN [raised |-> FALSE,
          data |-> WithDefault(WithDefault([title |-> task_info.title],
                                           "parentId", project_id),
                               "categoryId", category_id)]
    ELSE IF task_info.kind = "dict"
    THEN [raised |-> FALSE,
          data |-> WithDefault(WithDefault(task_info.data,
                                           "parentId", project_id),
                               "categoryId", category_id)]
    ELSE [raised |-> TRUE]

\* what the loop has done so far: the two lists of the result, the
\* requests sent upstream and what became of each task
NoneDone == [done |-> <<>>, failed |-> <<>>, sent |-> <<>>, fate |-> <<>>]

\* what the upstream answers when it creates a task
Created(task_data, n) == DictSet(task_data, "_id", n)

\* lines 231-247: one turn of the loop, td being the task_data and ok
\* whether create_task succeeds
CreateSent(task_info, td, ok, st) ==
    IF td.raised
    THEN [st EXCEPT !.failed = Append(@, [task |-> task_info,
                                          error |-> "AttributeError"]),
                    !.fate = Append(@, "failed")]
    ELSE IF ok
    THEN [st EXCEPT !.done = Append(@, Created(td.data, Len(st.done) + 1)),
                    !.sent = Append(@, td.data),
                    !.fate = Append(@, "done")]
    ELSE [st EXCEPT !.failed = Append(@, [task |-> task_info,
                                          error |-> "HTTPError"]),
                    !.sent = Append(@, td.data),
                    !.fate = Append(@, "failed")]

\* a loop that has its try around it: the first failure ends it
RECURSIVE CreateLoopOneTry(_, _, _, _, _, _)
CreateLoopOneTry(task_list, i, up, project_id, category_id, st) ==
    IF i > Len(task_list) THEN st
    ELSE IF TaskData(task_list[i], project_id, category_id).raised \/ ~up[i]
    THEN CreateSent(task_list[i],
                    TaskData(task_list[i], project_id, category_id),
                    up[i], st)
    ELSE CreateLoopOneTry(task_list, i + 1, up, project_id, category_id,
             CreateSent(task_list[i],
                        TaskData(task_list[i], project_id, category_id),
                        up[i], st))

\* lines 230-247: for task_info in task_list
RECURSIVE CreateLoop(_, _, _, _, _, _)
CreateLoop(task_list, i, up, project_id, category_id, st) ==
    IF i > Len(task_list) THEN st
    ELSE CreateLoop(task_list, i + 1, up, project_id, category_id,
             CreateSent(task_list[i],
                        TaskData(task_list[i], project_id, category_id),
                        up[i], st))

\* lines 249-255 of utils.py
CreateResult(task_list, st) ==
    [created_tasks |-> st.done,
     failed_tasks |-> st.failed,
     success_count |-> Len(st.done),
     failure_count |-> Len(st.failed),
     total_requested |-> Len(task_list)]

\* main.py lines 232-237: one turn of the loop of batch_mark_done
MarkSent(task_id, ok, st) ==
    IF ok
    THEN [st EXCEPT !.done = Append(@, [_id |-> task_id, done |-> TRUE]),
                    !.sent = Append(@, [itemId |-> task_id,
                                        timeZoneOffset |-> 0]),
                    !.fate = Append(@, "done")]
    ELSE [st EXCEPT !.failed = Append(@, [task_id |-> task_id,
                                          error |-> "HTTPError"]),
                    !.sent = Append(@, [itemId |-> task_id,
                                        timeZoneOffset |-> 0]),
                    !.fate = Append(@, "failed")]

\* main.py lines 232-237: for task_id in task_ids
RECURSIVE MarkLoop(_, _, _, _)
MarkLoop(task_ids, i, up, st) ==
    IF i > Len(task_ids) THEN st
    ELSE MarkLoop(task_ids, i + 1, up, MarkSent(task_ids[i], up[i], st))

\* main.py lines 239-245
MarkResult(task_ids, st) ==
    [completed_tasks |-> st.done,
     failed_tasks |-> st.failed,
     success_count |-> Len(st.done),
     failure_count |-> Len(st.failed),
     total_requested |-> Len(task_ids)]

\* the lists of up to MaxTasks elements of S
ListsOf(S) == UNION {[1..n -> S] : n \in 0..MaxTasks}

\* the call is over; st is what the loop did
BatchReturns(op, input, up, result, st) ==
    /\ ret' = [op |-> op, input |-> input, up |-> up, result |-> result,
               sent |-> st.sent, fate |-> st.fate]
    /\ UNCHANGED <<clock, cache, expiry, hist, lastFailed, th, prev>>

\* lines 255-261 of batch_create_tasks_util, st being what its loop did
BatchCreated(input, up, st) ==
    BatchReturns("batch_create_tasks", input, up,
                 CreateResult(input.task_list, st), st)

\* lines 239-245 of batch_mark_done, st being what its loop did
BatchMarked(input, up, st) ==
    BatchReturns("batch_mark_done", input, up,
                 MarkResult(input.task_ids, st), st)

\* batch_create_tasks_util(task_list, project_id, category_id); up tells
\* for which tasks create_task succeeds
BatchCreateTasks(task_list, project_id, category_id, up) ==
    /\ ret = NoRet
    /\ BatchCreated([task_list |-> task_list, project_id |-> project_id,
                      category_id |-> category_id],
                     up,
                     CreateLoop(task_list, 1, up, project_id, category_id,
                                NoneDone))

\* batch_mark_done(task_ids); up tells for which mark_task_done succeeds
BatchMarkDone(task_ids, up) ==
    /\ ret = NoRet
    /\ BatchMarked([task_ids |-> task_ids], up,
                   MarkLoop(task_ids, 1, up, NoneDone))

NextBatch ==
    \/ Return
    \/ \E task_list \in ListsOf(TaskInfos),
          project_id \in {None, <<"">>, <<"proj">>},
          category_id \in {None, <<"cat">>} :
          \E up \in [1..Len(task_list) -> BOOLEAN] :
              BatchCreateTasks(task_list, project_id, category_id, up)
    \/ \E task_ids \in ListsOf(TaskIds) :
          \E up \in [1..Len(task_ids) -> BOOLEAN] :
              BatchMarkDone(task_ids, up)

SpecBatch == Init /\ [][NextBatch]_vars

---------------------------------------------------------------------------
(* The API client: MarvinAPIClient._make_request and get_children *)

\* the status codes the client tells apart
NoContent == 204

NotFound == 404

\* what the upstream can answer: requests.get fails before any response
\* (transport), or a response with a status code and a body arrives
Statuses == {200, NoContent, 400, 401, NotFound, 429, 500, 503}

Bodies ==
    {[kind |-> "empty"],
     [kind |-> "invalid"],
     [kind |-> "list", items |-> <<>>],
     [kind |-> "list", items |-> <<"c1", "c2">>],
     [kind |-> "dict", items |-> <<"error">>]}

Responses ==
    {[transport |-> "ConnectionError"], [transport |-> "Timeout"]}
    \cup {[transport |-> "ok", status_code |-> s, content |-> b] :
             s \in Statuses, b \in Bodies}

ParentIds == {"p1", "invalid_project_id", ""}

Methods == {"get", "GET", "post", "patch"}

\* str.lower() on the method names in use
Lower(method) == IF method = "GET" THEN "get" ELSE method

\* an exception of the given class; response is the status code of the
\* response it carries, or None
Raise(type, response) ==
    [raised |-> <<[type |-> type, response |-> response]>>, value |-> None]

Returns(value) == [raised |-> None, value |-> <<value>>]

EmptyJsonDict == [kind |-> "dict", items |-> <<>>]

EmptyJsonList == [kind |-> "list", items |-> <<>>]

\* response.raise_for_status() raises for the 4xx and 5xx codes
IsErrorStatus(status_code) == status_code >= 400 /\ status_code < 600

\* _make_request(method, endpoint): both except clauses log and re-raise
MakeRequest(method, response) ==
    IF Lower(method) \notin {"get", "post", "put", "delete"}
    THEN Raise("ValueError", None)
    ELSE IF response.transport # "ok"
    THEN Raise(response.transport, None)
    ELSE IF IsErrorStatus(response.status_code)
    THEN Raise("HTTPError", <<response.status_code>>)
    ELSE IF response.status_code = NoContent \/ response.content.kind = "empty"
    THEN Returns(EmptyJsonDict)
    ELSE IF response.content.kind = "invalid"
    THEN Raise("JSONDecodeError", None)
    ELSE Returns(response.content)

\* get_children without its except clause
GetChildrenNoExcept(method, response) == MakeRequest(method, response)

\* get_children(parent_id): the try around _make_request and its except
\* clause for HTTPError
GetChildrenTry(method, response) ==
    LET r == MakeRequest(method, response)
    IN  IF r.raised # None /\ r.raised[1].type = "HTTPError"
        THEN IF r.raised[1].response[1] = NotFound
             THEN Returns(EmptyJsonList)
             ELSE r
        ELSE r

ApiReturns(op, args, response, r) ==
    /\ ret' = [op |-> op, args |-> args, response |-> response,
               raised |-> r.raised, value |-> r.value]
    /\ UNCHANGED <<clock, cache, expiry, hist, lastFailed, th, prev>>

GetChildren(parent_id, response) ==
    /\ ret = NoRet
    /\ ApiReturns("get_children", [parent_id |-> parent_id], response,
                  GetChildrenTry("get", response))

\* a call of _make_request on its own, as the other methods of the client
\* make it
Request(method, response) ==
    /\ ret = NoRet
    /\ ApiReturns("_make_request", [method |-> method], response,
                  MakeRequest(method, response))

NextApi ==
    \/ Return
    \/ \E parent_id \in ParentIds, response \in Responses :
          GetChildren(parent_id, response)
    \/ \E method \in Methods, response \in Responses :
          Request(method, response)

SpecApi == Init /\ [][NextApi]_vars

---------------------------------------------------------------------------
(* get_completed_tasks_util *)

\* what one get_done_items call can answer here: the outcomes of the
\* cache's upstream and an answer holding an item that is no JSON object
CompletedOutcomes == Outcomes \cup {Success(<<Item1, BadItem>>)}

\* {item.get("_id") for item in items}; the call raises on an item that is
\* no dict
AllGettable(items) == \A i \in 1..Len(items) : items[i].kind = "dict"

IdsOf(items) == {items[i].id : i \in 1..Len(items)}

\* lines 547-551
OlderCompleted(all_done_items, today_ids, yesterday_ids) ==
    LET Older(item) == item.id \notin today_ids /\ item.id \notin yesterday_ids
    IN  SelectSeq(all_done_items, Older)

\* lines 556-572: the dict of the success path
CompletedDict(today_completed, yesterday_completed, all_done_items, older) ==
    [completed_tasks |-> all_done_items,
     total_completed |-> Len(all_done_items),
     today_completed |-> today_completed,
     yesterday_completed |-> yesterday_completed,
     older_completed |-> older,
     today_count |-> Len(today_completed),
     yesterday_count |-> Len(yesterday_completed),
     older_count |-> Len(older),
     date_breakdown |-> [today |-> Len(today_completed),
                         yesterday |-> Len(yesterday_completed),
                         older |-> Len(older)],
     source |-> "Amazing Marvin /doneItems endpoint with efficient date filtering",
     efficiency_note |-> <<Len(today_completed), Len(yesterday_completed)>>]

\* lines 573-580: the dict of the except clause
CompletedError(e) ==
    [completed_tasks |-> <<>>, total_completed |-> 0, error |-> e,
     source |-> "Error occurred"]

\* lines 529-580: the try and its except clause; the three outcomes are
\* what the three get_done_items calls answer, in the order of the calls
CompletedTry(today_o, yesterday_o, all_o) ==
    IF ~today_o.ok THEN [calls |-> 1, result |-> CompletedError("today")]
    ELSE IF ~yesterday_o.ok
    THEN [calls |-> 2, result |-> CompletedError("yesterday")]
    ELSE IF ~all_o.ok THEN [calls |-> 3, result |-> CompletedError("all")]
    ELSE IF ~(AllGettable(today_o.items) /\ AllGettable(yesterday_o.items)
              /\ AllGettable(all_o.items))
    THEN [calls |-> 3, result |-> CompletedError("AttributeError")]
    ELSE [calls |-> 3,
          result |-> CompletedDict(today_o.items, yesterday_o.items,
                         all_o.items,
                         OlderCompleted(all_o.items, IdsOf(today_o.items),
                                        IdsOf(yesterday_o.items)))]

CompletedReturns(configured, raised, r, yesterday) ==
    /\ ret' = [op |-> "get_completed_tasks", configured |-> configured,
               raised |-> raised, result |-> r.result, calls |-> r.calls,
               yesterday |-> yesterday, at |-> clock]
    /\ UNCHANGED <<clock, cache, expiry, hist, lastFailed, th, prev>>

\* get_completed_tasks_util(): get_settings() is called before the try
GetCompletedTasks(settings_ok, today_o, yesterday_o, all_o) ==
    /\ ret = NoRet
    /\ IF GetSettings(settings_ok).raised
       THEN CompletedReturns(FALSE, TRUE,
                [calls |-> 0, result |-> EmptyDict], None)
       ELSE CompletedReturns(TRUE, FALSE,
                CompletedTry(today_o, yesterday_o, all_o),
                <<Strftime(clock - TimedeltaDays(1))>>)

NextCompleted ==
    \/ Return
    \/ \E step \in Steps : Tick(step, MaxElapsed)
    \/ \E settings_ok \in BOOLEAN,
          today_o \in CompletedOutcomes, yesterday_o \in CompletedOutcomes,
          all_o \in CompletedOutcomes :
          GetCompletedTasks(settings_ok, today_o, yesterday_o, all_o)

SpecCompleted == Init /\ [][NextCompleted]_vars

---------------------------------------------------------------------------
(* Properties of the batch operations *)

BatchCall == ret.op \in {"batch_create_tasks", "batch_mark_done"}

\* the tasks asked for, the list of those that succeeded and the request
\* that is sent upstream for the i-th of them
BatchInput ==
    IF ret.op = "batch_create_tasks" THEN ret.input.task_list
    ELSE ret.input.task_ids

BatchDone ==
    IF ret.op = "batch_create_tasks" THEN ret.result.created_tasks
    ELSE ret.result.completed_tasks

\* the i-th task can be sent upstream at all
WellFormed(i) ==
    ret.op = "batch_create_tasks" => BatchInput[i].kind \in {"str", "dict"}

\* the places of the tasks that met with fate f, in ascending order
PlacesOf(f) ==
    LET Met(i) == ret.fate[i] = f
    IN  SelectSeq([i \in 1..Len(ret.fate) |-> i], Met)

\* the title of a task that is to be created
TitleOf(task_info) ==
    IF task_info.kind = "str" THEN task_info.title ELSE task_info.data.title

\* the k-th entry of the list of successes comes from the i-th task
DoneFrom(k, i) ==
    IF ret.op = "batch_create_tasks"
    THEN BatchDone[k].title = TitleOf(BatchInput[i])
    ELSE BatchDone[k]._id = BatchInput[i]

\* the k-th entry of failed_tasks comes from the i-th task
FailedFrom(k, i) ==
    IF ret.op = "batch_create_tasks"
    THEN ret.result.failed_tasks[k].task = BatchInput[i]
    ELSE ret.result.failed_tasks[k].task_id = BatchInput[i]

\* the k-th request sent upstream is for the i-th task
SentFor(k, i) ==
    IF ret.op = "batch_create_tasks"
    THEN ret.sent[k].title = TitleOf(BatchInput[i])
    ELSE ret.sent[k].itemId = BatchInput[i]

\* C19: both batch operations take every task once, in order, whatever
\* fails: the upstream is asked once for each task that can be sent, in
\* the order of the input; a task succeeds exactly when its request does;
\* the successes and the failures are listed in the order of the input,
\* each task in one of the two lists; total_requested is the length of
\* the input and success_count + failure_count = total_requested
C19_BatchAttemptsAll ==
    BatchCall =>
        LET n      == Len(BatchInput)
            sendable == SelectSeq([i \in 1..n |-> i], WellFormed)
        IN  /\ ret.result.total_requested = n
            /\ ret.result.success_count = Len(BatchDone)
            /\ ret.result.failure_count = Len(ret.result.failed_tasks)
            /\ ret.result.success_count + ret.result.failure_count = n
            /\ Len(ret.fate) = n
            /\ \A i \in 1..n :
                  ret.fate[i] = "done" <=> (WellFormed(i) /\ ret.up[i])
            /\ Len(ret.sent) = Len(sendable)
            /\ \A k \in 1..Len(sendable) : SentFor(k, sendable[k])
            /\ Len(BatchDone) = Len(PlacesOf("done"))
            /\ \A k \in 1..Len(BatchDone) : DoneFrom(k, PlacesOf("done")[k])
            /\ Len(ret.result.failed_tasks) = Len(PlacesOf("failed"))
            /\ \A k \in 1..Len(ret.result.failed_tasks) :
                  FailedFrom(k, PlacesOf("failed")[k])

\* three tasks to create: the request for the first fails, the two after
\* it are created
C19_Witness ==
    /\ ret.op = "batch_create_tasks"
    /\ Len(ret.input.task_list) = 3
    /\ ret.input.task_list[1].kind = "str"
    /\ ~ret.up[1]
    /\ ret.fate = <<"failed", "done", "done">>
    /\ ret.result.success_count = 2
    /\ ret.result.failure_count = 1

\* three tasks to mark done: the second fails, the third is marked
C19_WitnessMarkDone ==
    /\ ret.op = "batch_mark_done"
    /\ ret.fate = <<"done", "failed", "done">>
    /\ ret.result.failure_count = 1

---------------------------------------------------------------------------
(* Properties of the API client *)

\* a call of get_children that the upstream answered with the status code
AnsweredChildren(status_code) ==
    /\ ret.op = "get_children"
    /\ ret.response.transport = "ok"
    /\ ret.response.status_code = status_code

\* C20: get_children turns an upstream 404, the answer to an unknown
\* parent id, into an empty list and does not raise; every other HTTP
\* error status is raised to the caller as the HTTPError that carries it
C20_NotFoundIsEmptyList ==
    \A s \in Statuses :
        AnsweredChildren(s) =>
            /\ s = NotFound =>
                  ret.raised = None /\ ret.value = <<EmptyJsonList>>
            /\ (IsErrorStatus(s) /\ s # NotFound) =>
                  /\ ret.raised = <<[type |-> "HTTPError", response |-> <<s>>]>>
                  /\ ret.value = None

\* the unknown parent id is answered with 404 and the call returns []
C20_Witness ==
    /\ AnsweredChildren(NotFound)
    /\ ret.args.parent_id = "invalid_project_id"
    /\ ret.raised = None
    /\ ret.value = <<EmptyJsonList>>

\* the unknown parent id is answered with 500 and the call raises
C20_WitnessPropagated ==
    /\ AnsweredChildren(500)
    /\ ret.args.parent_id = "invalid_project_id"
    /\ ret.raised # None
    /\ ret.raised[1].response = <<500>>

---------------------------------------------------------------------------
(* Properties of get_completed_tasks_util *)

\* C21: get_completed_tasks_util never raises, and the dict it returns has
\* the keys completed_tasks, total_completed, sources_checked and
\* limitations, on the success path and on the error path alike
C21_CompletedTasksFields ==
    ret.op = "get_completed_tasks" =>
        /\ ~ret.raised
        /\ {"completed_tasks", "total_completed", "sources_checked",
            "limitations"} \subseteq DOMAIN ret.result

---------------------------------------------------------------------------
(* Properties of reports in a row *)

\* two reports in a row over the same dates were noted
TwoReports ==
    /\ prev # NoPrev
    /\ prev.before # None
    /\ prev.dates = prev.before[1].dates

\* the date d was past when the report noted as r started
PastFor(d, r) == DateBefore(d, Strftime(r.at))

\* C26: of two reports in a row over the same dates, the second one built,
\* from its start to its end, in the 10 minutes that follow the start of
\* the first: the second calls the upstream for no past date the first
\* fetched successfully, and it calls it for every date that is today at
\* its get and for every past date whose fetch failed in the first
C26_SecondReportUsesCache ==
    (TwoReports /\ prev.end < prev.before[1].at + TTL) =>
        \A d \in SeqToSet(prev.dates) :
            /\ (/\ PastFor(d, prev.before[1])
                /\ d \in prev.before[1].fetched
                /\ d \notin prev.before[1].failed) => d \notin prev.fetched
            /\ d \in prev.live => d \in prev.fetched
            /\ (PastFor(d, prev.before[1]) /\ d \in prev.before[1].failed)
                  => d \in prev.fetched

\* the first report fetched one past date and failed for another; the
\* second, whose fetches took time, called the upstream for today and for
\* the date that had failed and not for the other
C26_Witness ==
    /\ TwoReports
    /\ prev.end < prev.before[1].at + TTL
    /\ prev.end > prev.at
    /\ \E d, f, t \in SeqToSet(prev.dates) :
          /\ PastFor(d, prev.before[1])
          /\ d \in prev.before[1].fetched \ prev.before[1].failed
          /\ d \notin prev.fetched
          /\ PastFor(f, prev.before[1])
          /\ f \in prev.before[1].failed
          /\ f \in prev.fetched
          /\ t \in prev.live
          /\ t \in prev.fetched

\* a second report that started within the 10 minutes and ended after
\* them: its earlier fetches took so long that its get of a date the first
\* report had fetched came when the entry had expired
C26_WitnessLate ==
    /\ TwoReports
    /\ prev.at < prev.before[1].at + TTL
    /\ \E d \in SeqToSet(prev.dates) :
          /\ PastFor(d, prev.before[1])
          /\ d \in prev.before[1].fetched \ prev.before[1].failed
          /\ d \in prev.fetched

---------------------------------------------------------------------------
(* Properties of the report *)

\* a report was returned with every field of the summary
FullReturned ==
    /\ ret.op = "report"
    /\ ~ret.raised
    /\ ret.report.kind = "full"

\* the items of a date were all well-formed
AllDicts(items) == \A i \in 1..Len(items) : items[i].kind = "dict"

\* C3: in a report over N dates where the fetch failed for the dates of F
\* and succeeded for the others, total_days is N, every date of F has a
\* daily_breakdown entry with count 0 and no tasks, its weekday and
\* is_today set, every date of the range has been processed (it has an
\* entry, with the count of its items when they were fetched and
\* well-formed), and total_completed is the sum of the item counts of the
\* dates that succeeded.
C3_FailedDatesZeroed ==
    FullReturned =>
        /\ ret.report.total_days = Len(ret.dates)
        /\ \A d \in ret.failed :
              /\ ODHas(ret.report.daily_breakdown, d)
              /\ ODGet(ret.report.daily_breakdown, d).count = 0
              /\ ODGet(ret.report.daily_breakdown, d).tasks = <<>>
              /\ ODGet(ret.report.daily_breakdown, d).weekday
                    = Weekday(Strptime(d))
              /\ ODGet(ret.report.daily_breakdown, d).is_today \in BOOLEAN
        /\ \A i \in 1..Len(ret.dates) :
              /\ ODHas(ret.report.daily_breakdown, ret.dates[i])
              /\ ret.dates[i] \in ret.failed \cup DOMAIN ret.got
        /\ \A d \in DOMAIN ret.got :
              AllDicts(ret.got[d]) =>
                  ODGet(ret.report.daily_breakdown, d).count = Len(ret.got[d])
        /\ ret.report.total_completed
              = SumOver([d \in DOMAIN ret.got |-> Len(ret.got[d])],
                        DOMAIN ret.got)

\* a report over three dates: the fetch of one failed, a later one brought
\* items
C3_Witness ==
    /\ FullReturned
    /\ Len(ret.dates) = 3
    /\ \E i, j \in 1..Len(ret.dates) :
          /\ i < j
          /\ ret.dates[i] \in ret.failed
          /\ ret.dates[j] \in DOMAIN ret.got
          /\ Len(ret.got[ret.dates[j]]) > 0
    /\ ret.report.total_completed > 0

\* what a degraded report carries
Degraded(report) ==
    /\ report.kind = "error"
    /\ report.total_completed = 0
    /\ report.daily_breakdown = <<>>
    /\ report.by_project = <<>>

\* C5 as claimed: the report builder never raises; for every input and
\* every pattern of upstream and configuration failures it returns a full
\* report or a degraded one
C5_NeverRaises ==
    ret.op = "report" =>
        /\ ~ret.raised
        /\ ret.report.kind = "full" \/ Degraded(ret.report)

\* C5 as amended: when the configuration loads, the report builder never
\* raises; for every input and every pattern of upstream failures it
\* returns a full report or a degraded one
C5_NeverRaisesOnceConfigured ==
    (ret.op = "report" /\ ret.configured) =>
        /\ ~ret.raised
        /\ ret.report.kind = "full" \/ Degraded(ret.report)

\* a malformed start_date was given, the configuration loaded and a
\* degraded report came back
C5_Witness ==
    /\ ret.op = "report"
    /\ ret.configured
    /\ ret.args.start_date # None
    /\ ~ValidDate(ret.args.start_date)
    /\ ~ret.raised
    /\ Degraded(ret.report)

\* C6: total_api_calls is the number of times the upstream fetch of
\* completed items was invoked while the report was built: once for every
\* cache miss and for every fetch of today, failed or not, never for a
\* date served from the cache
C6_ApiCallsCountFetches ==
    FullReturned =>
        ret.report.efficiency_metrics.total_api_calls = ret.calls

\* the keys an item can be grouped under
ProjectKeys == {"p1", "p2", "unassigned"}

\* the items the gets of the report returned that carry the key k: the
\* date and the place of each
Carrying(k) ==
    UNION {{<<d, i>> : i \in {j \in 1..Len(ret.got[d]) :
                                /\ ret.got[d][j].kind = "dict"
                                /\ ProjectKey(ret.got[d][j]) = k}} :
           d \in DOMAIN ret.got}

\* C24: every item of a date whose get succeeded is grouped under its
\* parentId, or under "unassigned" when it has none: for every key,
\* by_project[key] is the number of entries of tasks_by_project[key] and
\* the number of fetched items that carry the key, and the entries are
\* items with that key
C24_GroupedByProject ==
    FullReturned =>
        \A k \in ProjectKeys :
            LET n == Cardinality(Carrying(k))
            IN  /\ ODHas(ret.report.by_project, k)
                      = ODHas(ret.report.tasks_by_project, k)
                /\ ODHas(ret.report.by_project, k) <=> n > 0
                /\ ODHas(ret.report.by_project, k) =>
                      /\ ODGet(ret.report.by_project, k) = n
                      /\ Len(ODGet(ret.report.tasks_by_project, k)) = n
                      /\ \A i \in 1..n :
                            ProjectKey(ODGet(ret.report.tasks_by_project,
                                             k)[i].task) = k

\* the sum of the values of an iterated dict of numbers
SumOfValues(d) == SumOver([i \in 1..Len(d) |-> d[i].v], 1..Len(d))

\* C25: in every report that is no error report the accumulators agree:
\* total_completed is the sum of the counts of daily_breakdown, the length
\* of all_completed_tasks and the sum of the counts of by_project,
\* whichever dates failed and also when an item that is no JSON object
\* stops the accumulation of a date part-way
C25_AccumulatorsAgree ==
    FullReturned =>
        /\ ret.report.total_completed
              = SumOver([i \in 1..Len(ret.report.daily_breakdown) |->
                            ret.report.daily_breakdown[i].v.count],
                        1..Len(ret.report.daily_breakdown))
        /\ ret.report.total_completed = Len(ret.report.all_completed_tasks)
        /\ ret.report.total_completed = SumOfValues(ret.report.by_project)

\* C27: in every report that is no error report, daily_breakdown and
\* tasks_by_date have one entry for each date of the expanded range and
\* no other, in the order of the range, so that total_days is the number
\* of daily_breakdown entries whichever fetches failed
C27_OneEntryPerDate ==
    FullReturned =>
        /\ SeqToSet(ODKeys(ret.report.daily_breakdown)) = SeqToSet(ret.dates)
        /\ SeqToSet(ODKeys(ret.report.tasks_by_date)) = SeqToSet(ret.dates)
        /\ ODKeys(ret.report.daily_breakdown) = ret.dates
        /\ ODKeys(ret.report.tasks_by_date) = ret.dates
        /\ ret.report.total_days = Len(ret.report.daily_breakdown)
        /\ ret.report.total_days = Len(ret.dates)

\* a report over three dates: the get of one raised, the items of another
\* stopped the accumulation, the third went through
C27_Witness ==
    /\ FullReturned
    /\ ret.report.total_days = 3
    /\ Len(ret.report.daily_breakdown) = 3
    /\ Len(ret.report.tasks_by_date) = 3
    /\ \E a, b, c \in SeqToSet(ret.dates) :
          /\ a \in ret.failed
          /\ b \in DOMAIN ret.got /\ ~AllDicts(ret.got[b])
          /\ c \in DOMAIN ret.got /\ AllDicts(ret.got[c])
          /\ ODGet(ret.report.daily_breakdown, c).count > 0

\* a report over an empty range
C27_WitnessEmpty ==
    /\ FullReturned
    /\ ret.dates = <<>>
    /\ ret.report.total_days = 0
    /\ ret.report.daily_breakdown = <<>>

\* the entry of daily_breakdown that day, a most or least productive day,
\* was taken from: its place in the breakdown
PlaceOf(day) ==
    CHOOSE i \in 1..Len(ret.report.daily_breakdown) :
        ret.report.daily_breakdown[i].k = day.date

\* day names an entry of the breakdown with its count and its weekday
NamesEntry(day) ==
    /\ ODHas(ret.report.daily_breakdown, day.date)
    /\ day.count = ODGet(ret.report.daily_breakdown, day.date).count
    /\ day.weekday = ODGet(ret.report.daily_breakdown, day.date).weekday

\* C12: the breakdown lists the dates in the order of the range expansion;
\* when it is not empty, least_productive_day is a date of minimum count,
\* the first such in that order, and most_productive_day a date of maximum
\* count, the last such in that order; when it is empty both are null
C12_LeastAndMostProductive ==
    FullReturned =>
        LET db    == ret.report.daily_breakdown
            least == ret.report.least_productive_day
            most  == ret.report.most_productive_day
        IN  /\ ODKeys(db) = ret.dates
            /\ IF Len(db) = 0
               THEN least = None /\ most = None
               ELSE /\ Len(least) = 1 /\ NamesEntry(least[1])
                    /\ Len(most) = 1 /\ NamesEntry(most[1])
                    /\ \A j \in 1..Len(db) :
                          /\ db[j].v.count >= least[1].count
                          /\ j < PlaceOf(least[1])
                                => db[j].v.count > least[1].count
                          /\ db[j].v.count <= most[1].count
                          /\ j > PlaceOf(most[1])
                                => db[j].v.count < most[1].count

\* three dates with one item each: the first is the least productive day
\* and the last the most productive one
C12_Witness ==
    /\ FullReturned
    /\ Len(ret.dates) = 3
    /\ \A i \in 1..3 : ret.report.daily_breakdown[i].v.count = 1
    /\ ret.report.least_productive_day[1].date = ret.dates[1]
    /\ ret.report.most_productive_day[1].date = ret.dates[3]

\* a report over no date at all: both days stay null
C12_WitnessEmpty ==
    /\ FullReturned
    /\ ret.dates = <<>>
    /\ ret.report.least_productive_day = None

C13_WitnessEmpty ==
    /\ FullReturned
    /\ ret.report.daily_breakdown = <<>>
    /\ ret.report.average_per_day.num = 0

\* a report without what the resolution of the names adds to it
WithoutNames(report) ==
    [report EXCEPT !.project_names = EmptyDict,
                   !.top_projects_with_names = <<>>]

\* the loop over the dates was run and get_projects then failed
ProjectsFailed ==
    /\ ret.op = "report"
    /\ ret.configured
    /\ ret.rs # <<>>
    /\ ~ret.projects_ok

\* C15: when get_projects fails the report is still a full report;
\* project_names is an empty map and top_projects_with_names an empty
\* list, and everything else in it is what it is when get_projects
\* answers
C15_ProjectFailureNotFatal ==
    ProjectsFailed =>
        /\ FullReturned
        /\ ret.report.project_names = EmptyDict
        /\ ret.report.top_projects_with_names = <<>>
        /\ ret.report.top_projects = TopProjectsOf(ret.report.by_project)
        /\ \A projects \in ProjectOutcomes :
              projects.ok =>
                  WithoutNames(Assemble(ret.rs, cache, projects))
                      = ret.report

\* get_projects failed in a report with completed items of two projects
C15_Witness ==
    /\ ProjectsFailed
    /\ FullReturned
    /\ Len(ret.report.top_projects) = 2
    /\ ret.report.total_completed > 0
    /\ \E projects \in ProjectOutcomes :
          Assemble(ret.rs, cache, projects).top_projects_with_names # <<>>

=============================================================================
